---- MODULE Spec2Model ----
(***************************************************************************)
(* A model of the trading simulator's core: the strategy base class        *)
(* (positions, entry rules, exit checks), the strategy engine (tick        *)
(* dispatch, signal execution, emergency stop, periodic end-of-day         *)
(* flatten) and the DhanHQ feed transport (listener, reconnect loop).      *)
(*                                                                         *)
(* Every `await` of the source on an external collaborator (persistence    *)
(* sink, socket, sleep) is a point where the coroutine may be suspended    *)
(* and another coroutine may run; the code between two awaits is one       *)
(* atomic step.                                                            *)
(*                                                                         *)
(* Prices are integers; wall-clock time is seconds since midnight.         *)
(***************************************************************************)
EXTENDS Integers, Sequences, FiniteSets, TLC

(***************************************************************************)
(* Bounds of the model                                                     *)
(***************************************************************************)
\* ticks (market_data dictionaries) delivered in one run
MaxTicks == 2
\* ticks handed to the directly driven strategy in one run
RiskTicks == 1
\* positions one strategy may accumulate when driven directly
MaxPositions == 4
\* calls of emergency_stop in one run
MaxStops == 1
\* clock advances in one run
MaxClock == 1
\* winning, and losing, trades in the track record of a strategy that asks
\* for live mode
MaxRecord == 6
\* market-data frames aggregated into bars in one run
MaxBarTicks == 3
\* market-data frames of any symbol, minutes or a day apart, in one run
MaxRollTicks == 5
\* market-data frames handed on to a strategy in one run
MaxHistoryTicks == 3
\* frames, well-formed or not, one listener receives in one run
MaxFrames == 3
\* front-end listeners that connect to the ConnectionManager
MaxListeners == 3
\* calls of start on an engine that is not running, in one run
MaxStarts == 1
\* connections the feed server accepts in one run
MaxConnections == 2
\* calls of subscribe_to_feed by the owner of the client in one run
MaxOwnerCalls == 2

\* the strategies registered with the engine, and self.strategies in
\* insertion order
StrategyIds == {1, 2}
RegistryOrder == <<1, 2>>

\* a run starts at 14:25:00 and the clock advances in steps of 50 minutes:
\* 14:25 (before the cutoff), 15:15 (the cutoff), ...
ClockStart == 14 * 3600 + 25 * 60
ClockStep == 50 * 60

(***************************************************************************)
(* Inputs                                                                  *)
(***************************************************************************)
\* PVAStrategy.instruments
Symbols == {"Nifty50", "BankNifty"}
TradeTypes == {"LONG", "SHORT"}
\* last traded prices of a tick: below the stop of a LONG entered at 100
\* with ATR 2 (97), the entry price, and the target (104)
TickPrices == {96, 100, 104}
SignalPrices == {100}
SignalAtrs == {2}
SignalStrengths == {200}
\* (volume, avg_volume) of a tick; avg_volume is an optional key of
\* market_data: << >> when absent, <<v>> when present
TickVolumes == { [volume |-> 100, avg_volume |-> << >>],
                 [volume |-> 40,  avg_volume |-> <<100>>] }

\* Optional values: None is the empty sequence, a value v is <<v>>
None == << >>
Some(v) == <<v>>

(***************************************************************************)
(* Program constants                                                       *)
(***************************************************************************)
\* BaseStrategy.max_open_trades, the default of config.get
max_open_trades == 3
\* BaseStrategy.reentry_cooldown, seconds
reentry_cooldown == 30 * 60
\* BaseStrategy.max_daily_loss = 0.06, in hundredths
max_daily_loss_x100 == 6
\* BaseStrategy.max_position_size = 0.02, in hundredths
max_position_size_x100 == 2
\* calculate_position_size: capital
capital == 100000
\* validate_for_live_mode: the least trade count
min_trades == 10
\* _check_exit_conditions / _check_eod_exit: the cutoff 15:15
eod_hour == 15
eod_minute == 15

VARIABLES
  \* ---- strategies (BaseStrategy instances, by strategy id)
  strat,                \* [StrategyIds -> strategy record]
  now,                  \* wall clock, seconds since midnight
  \* ---- StrategyEngine
  emergency_stopped,
  latest_market_data,   \* [Symbols -> None or <<ltp>>]
  dispatch,             \* the coroutine _on_market_data of the tick in flight
  ticks,                \* ticks delivered so far
  estop,                \* the coroutine emergency_stop in flight
  periodic,             \* the task _periodic_tasks
  emergency_log,        \* rows of the emergency_stops table
  is_running,
  starting,             \* the coroutine start in flight
  response,             \* what the last call of toggle_live_mode answered
  \* ---- DhanHQWebSocketClient
  websocket,            \* 0 for None, else the number of the connection
  is_connected,
  subscriptions,        \* set of instrument identifiers
  listeners,            \* the tasks created by connect(), in creation order
  owner,                \* the caller of the client's public methods
  frames,               \* subscription frames sent successfully
  ohlcv_data,           \* the bar of each symbol and timeframe, or None
  \* ---- PVAStrategy (one instance)
  price_data,           \* the data points kept for each timeframe
  indicators,           \* the snapshot handed to generate_signals
  generated,            \* << >>, or <<what generate_signals returned>>
  \* ---- history of one listener
  received,             \* the frames _process_message was called with
  notified,             \* the callback events _notify_callbacks raised
  \* ---- ConnectionManager
  active_connections,   \* channel -> set of listeners
  broadcast,            \* the call of broadcast_to_group in progress
  \* ---- calls of side-effect-free methods
  returned,             \* << >>, or <<the arguments and result of a call>>
  \* ---- the _periodic_tasks tasks start() created, each one kept
  loops,                \* sequence of "created", "sleep" or "ended"
  \* ---- ConnectionManager: the market feed
  joins,                \* listener -> position of its call of connect
  is_market_connected,  \* the manager's flag
  \* ---- history
  tick_log              \* the tick_info records handed to _update_ohlcv

stratVars == <<strat, now>>
lifeVars == <<is_running, starting, response>>
engineVars == <<emergency_stopped, latest_market_data, dispatch, ticks,
                estop, periodic, emergency_log, is_running, starting, response>>
pvaVars == <<indicators, generated>>
frameVars == <<received, notified>>
hubVars == <<active_connections, broadcast>>
joinVars == <<joins, is_market_connected>>
taskVars == <<loops>>
callVars == <<returned>>
barVars == <<ohlcv_data, tick_log, price_data, pvaVars, frameVars, hubVars,
             callVars, taskVars, joinVars>>
feedVars == <<websocket, is_connected, subscriptions, listeners, owner, frames,
              barVars>>
vars == <<strat, now, emergency_stopped, latest_market_data, dispatch, ticks,
          estop, periodic, emergency_log, is_running, starting, response,
          websocket,
          is_connected,
          subscriptions, listeners, owner, frames, ohlcv_data, tick_log,
          price_data, indicators, generated, received, notified,
          active_connections, broadcast, returned, loops, joins,
          is_market_connected>>

(***************************************************************************)
(* Wall clock                                                              *)
(***************************************************************************)
Hour(t) == (t \div 3600) % 24
Minute(t) == (t \div 60) % 60
Abs(n) == IF n < 0 THEN 0 - n ELSE n
Max(a, b) == IF a >= b THEN a ELSE b
Min(a, b) == IF a <= b THEN a ELSE b
\* the timeframes of _update_ohlcv, and those of a fixed duration
Timeframes == {"1min", "5min", "15min", "daily"}
FixedTimeframes == {"1min", "5min", "15min"}
\* the fields of a market-data frame (MessageCode 4): the last traded
\* price, the optional High and Low (absent: the last traded price), the
\* volume
FrameLtps == {100, 101}
FrameHighs(ltp) == {ltp, 102}
FrameLows(ltp) == {ltp, 99}
FrameVolumes == {10, 20}
\* seconds between two frames
FrameGaps == {30, 270, 600}
\* seconds between two frames, up to the length of a bar of each timeframe
\* (59 + 1 = 60, 60 + 240 = 300, 300 + 600 = 900, a day)
RollGaps == {59, 1, 240, 600, 86400}

(***************************************************************************)
(* BaseStrategy                                                            *)
(***************************************************************************)
\* BaseStrategy.__init__
NewStrategy(active, live) ==
  [ is_simulation_active |-> active,
    is_live_mode         |-> live,
    virtual_positions    |-> << >>,
    virtual_pnl          |-> 0,
    virtual_trade_count  |-> 0,
    winning_trades       |-> 0,
    last_trade_time      |-> [y \in Symbols |-> None] ]

OpenPositions(st) ==
  { i \in 1..Len(st.virtual_positions) : st.virtual_positions[i].status = "OPEN" }

\* can_enter_trade with the comparison of the open-trade count off by one
can_enter_trade_off_by_one(st, symbol, t) ==
  /\ ~ (Cardinality(OpenPositions(st)) > max_open_trades)
  /\ ~ (/\ st.last_trade_time[symbol] # None
        /\ t - st.last_trade_time[symbol][1] < reentry_cooldown)
  /\ ~ (100 * Abs(st.virtual_pnl) >= max_daily_loss_x100)

\* can_enter_trade without the daily-loss rule
can_enter_trade_no_loss_limit(st, symbol, t) ==
  /\ ~ (Cardinality(OpenPositions(st)) >= max_open_trades)
  /\ ~ (/\ st.last_trade_time[symbol] # None
        /\ t - st.last_trade_time[symbol][1] < reentry_cooldown)

\* BaseStrategy.can_enter_trade, evaluated at wall-clock time t
can_enter_trade(st, symbol, t) ==
  /\ ~ (Cardinality(OpenPositions(st)) >= max_open_trades)
  /\ ~ (/\ st.last_trade_time[symbol] # None
        /\ t - st.last_trade_time[symbol][1] < reentry_cooldown)
  /\ ~ (100 * Abs(st.virtual_pnl) >= max_daily_loss_x100)

\* the size multiplier with the middle tier beginning above 150
SizeMultiplierX4_above_150(signal_strength) ==
  IF signal_strength > 250 THEN 4
  ELSE IF 150 < signal_strength /\ signal_strength <= 250 THEN 3
  ELSE 2

\* the size multiplier of calculate_position_size, in quarters
SizeMultiplierX4(signal_strength) ==
  IF signal_strength > 250 THEN 4
  ELSE IF 150 <= signal_strength /\ signal_strength <= 250 THEN 3
  ELSE 2

\* BaseStrategy.calculate_position_size
calculate_position_size(signal_strength, price) ==
  Max(1, (capital * max_position_size_x100 * SizeMultiplierX4(signal_strength))
           \div (100 * 4 * price))

\* the Position execute_virtual_trade creates for a signal
NewPosition(signal) ==
  [ symbol       |-> signal.symbol,
    trade_type   |-> signal.signal_type,
    entry_time   |-> signal.timestamp,
    entry_price  |-> signal.price,
    quantity     |-> calculate_position_size(signal.signal_strength, signal.price),
    stop_loss    |-> IF signal.signal_type = "LONG"
                     THEN signal.price - (3 * signal.atr) \div 2
                     ELSE signal.price + (3 * signal.atr) \div 2,
    target_price |-> IF signal.signal_type = "LONG"
                     THEN signal.price + 2 * signal.atr
                     ELSE signal.price - 2 * signal.atr,
    exit_time    |-> None,
    exit_price   |-> None,
    exit_reason  |-> "None",
    pnl          |-> None,
    status       |-> "OPEN" ]

\* execute_virtual_trade recording the signal's time on a rejection too
execute_virtual_trade_stamps_rejected(st, signal, t) ==
  IF ~ can_enter_trade(st, signal.symbol, t)
  THEN [st EXCEPT !.last_trade_time[signal.symbol] = Some(signal.timestamp)]
  ELSE [st EXCEPT
         !.virtual_positions = Append(@, NewPosition(signal)),
         !.last_trade_time[signal.symbol] = Some(signal.timestamp)]

\* BaseStrategy.execute_virtual_trade at wall-clock time t: the strategy
\* afterwards (unchanged when the entry rules reject the signal)
execute_virtual_trade(st, signal, t) ==
  IF ~ can_enter_trade(st, signal.symbol, t)
  THEN st
  ELSE [st EXCEPT
         !.virtual_positions = Append(@, NewPosition(signal)),
         !.last_trade_time[signal.symbol] = Some(signal.timestamp)]

\* whether execute_virtual_trade returns a position
Accepts(st, signal, t) == can_enter_trade(st, signal.symbol, t)

\* _close_position leaving the status of the position as it was
_close_position_status_unchanged(st, i, exit_price, exit_reason, t) ==
  LET position == st.virtual_positions[i]
      pnl == IF position.trade_type = "LONG"
             THEN (exit_price - position.entry_price) * position.quantity
             ELSE (position.entry_price - exit_price) * position.quantity
  IN [st EXCEPT
        !.virtual_positions[i] =
            [position EXCEPT !.exit_time = Some(t),
                             !.exit_price = Some(exit_price),
                             !.exit_reason = exit_reason,
                             !.pnl = Some(pnl)],
        !.virtual_pnl = @ + pnl,
        !.virtual_trade_count = @ + 1]

\* _close_position computing the P&L of every position as for a LONG one
_close_position_as_long(st, i, exit_price, exit_reason, t) ==
  LET position == st.virtual_positions[i]
      pnl == (exit_price - position.entry_price) * position.quantity
  IN [st EXCEPT
        !.virtual_positions[i] =
            [position EXCEPT !.exit_time = Some(t),
                             !.exit_price = Some(exit_price),
                             !.exit_reason = exit_reason,
                             !.status = "CLOSED",
                             !.pnl = Some(pnl)],
        !.virtual_pnl = @ + pnl,
        !.virtual_trade_count = @ + 1]

\* _close_position that does not recompute the win rate
_close_position_win_rate_unchanged(st, i, exit_price, exit_reason, t) ==
  LET position == st.virtual_positions[i]
      pnl == IF position.trade_type = "LONG"
             THEN (exit_price - position.entry_price) * position.quantity
             ELSE (position.entry_price - exit_price) * position.quantity
  IN [st EXCEPT
        !.virtual_positions[i] =
            [position EXCEPT !.exit_time = Some(t),
                             !.exit_price = Some(exit_price),
                             !.exit_reason = exit_reason,
                             !.status = "CLOSED",
                             !.pnl = Some(pnl)],
        !.virtual_pnl = @ + pnl,
        !.virtual_trade_count = @ + 1]

\* BaseStrategy._close_position of position i at wall-clock time t
_close_position(st, i, exit_price, exit_reason, t) ==
  LET position == st.virtual_positions[i]
      pnl == IF position.trade_type = "LONG"
             THEN (exit_price - position.entry_price) * position.quantity
             ELSE (position.entry_price - exit_price) * position.quantity
  IN [st EXCEPT
        !.virtual_positions[i] =
            [position EXCEPT !.exit_time = Some(t),
                             !.exit_price = Some(exit_price),
                             !.exit_reason = exit_reason,
                             !.status = "CLOSED",
                             !.pnl = Some(pnl)],
        !.virtual_pnl = @ + pnl,
        !.virtual_trade_count = @ + 1,
        !.winning_trades =
            Cardinality({ j \in 1..Len(st.virtual_positions) :
                            /\ (j = i \/ st.virtual_positions[j].status = "CLOSED")
                            /\ (IF j = i THEN pnl
                                ELSE st.virtual_positions[j].pnl[1]) > 0 })]

\* the price-based exit of _check_exit_conditions: "TARGET", "STOP_LOSS" or "None"
PriceExit(position, current_price) ==
  IF position.trade_type = "LONG"
  THEN IF current_price >= position.target_price THEN "TARGET"
       ELSE IF current_price <= position.stop_loss THEN "STOP_LOSS"
       ELSE "None"
  ELSE IF current_price <= position.target_price THEN "TARGET"
       ELSE IF current_price >= position.stop_loss THEN "STOP_LOSS"
       ELSE "None"

\* the volume-based exit: volume < 0.5 * avg_volume, avg_volume defaulting
\* to volume
LowVolume(market_data) ==
  LET avg_volume == IF market_data.avg_volume = None
                    THEN market_data.volume
                    ELSE market_data.avg_volume[1]
  IN 2 * market_data.volume < avg_volume

\* the time-based exit of _check_exit_conditions
PastCutoff(t) == Hour(t) >= eod_hour /\ Minute(t) >= eod_minute

\* the exit reason _check_exit_conditions ends with ("None": no exit): each
\* later condition overwrites the reason set by an earlier one
ExitReason(position, current_price, market_data, t) ==
  LET r1 == PriceExit(position, current_price)
      r2 == IF LowVolume(market_data) THEN "LOW_VOLUME" ELSE r1
      r3 == IF PastCutoff(t) THEN "EOD" ELSE r2
  IN r3

\* BaseStrategy._check_exit_conditions
_check_exit_conditions(st, i, current_price, market_data, t) ==
  LET exit_reason == ExitReason(st.virtual_positions[i], current_price, market_data, t)
  IN IF exit_reason # "None"
     THEN _close_position(st, i, current_price, exit_reason, t)
     ELSE st

\* the loop of update_positions over positions k..Len, in list order
RECURSIVE UpdateFrom(_, _, _, _)
UpdateFrom(st, k, market_data, t) ==
  IF k > Len(st.virtual_positions) THEN st
  ELSE LET position == st.virtual_positions[k]
           st1 == IF position.symbol = market_data.symbol /\ position.status = "OPEN"
                  THEN _check_exit_conditions(st, k, market_data.ltp, market_data, t)
                  ELSE st
       IN UpdateFrom(st1, k + 1, market_data, t)

\* update_positions without the check that the position is still OPEN
RECURSIVE UpdateFromAnyStatus(_, _, _, _)
UpdateFromAnyStatus(st, k, market_data, t) ==
  IF k > Len(st.virtual_positions) THEN st
  ELSE LET position == st.virtual_positions[k]
           st1 == IF position.symbol = market_data.symbol
                  THEN _check_exit_conditions(st, k, market_data.ltp, market_data, t)
                  ELSE st
       IN UpdateFromAnyStatus(st1, k + 1, market_data, t)

update_positions_any_status(st, market_data, t) ==
  UpdateFromAnyStatus(st, 1, market_data, t)

\* BaseStrategy.update_positions
update_positions(st, market_data, t) == UpdateFrom(st, 1, market_data, t)

(***************************************************************************)
(* Inputs of the operations                                                *)
(***************************************************************************)
\* the market_data dictionaries handed to _on_market_data / update_positions
MarketData ==
  { [symbol |-> y, ltp |-> p, volume |-> v.volume, avg_volume |-> v.avg_volume] :
      y \in Symbols, p \in TickPrices, v \in TickVolumes }

\* the Signal a strategy generates at wall-clock time t
MakeSignal(s, y, tt, t) ==
  [ strategy_id     |-> s,
    symbol          |-> y,
    signal_type     |-> tt,
    signal_strength |-> CHOOSE g \in SignalStrengths : TRUE,
    price           |-> CHOOSE p \in SignalPrices : TRUE,
    atr             |-> CHOOSE a \in SignalAtrs : TRUE,
    timestamp       |-> t ]

NoSignal == [ strategy_id |-> 0, symbol |-> "None", signal_type |-> "None",
              signal_strength |-> 0, price |-> 0, atr |-> 0, timestamp |-> 0 ]
NoMarketData == [ symbol |-> "None", ltp |-> 0, volume |-> 0, avg_volume |-> None ]

(***************************************************************************)
(* StrategyEngine: state after __init__, initialize and start              *)
(***************************************************************************)
DispatchIdle ==
  [ pc |-> "idle", market_data |-> NoMarketData, plan |-> << >>,
    queue |-> << >>, strategy |-> 0, signal |-> NoSignal, stopped_at_signal |-> FALSE ]
EstopIdle == [ pc |-> "idle", affected_strategies |-> << >>,
               live_strategies_stopped |-> 0, calls |-> 0 ]
PeriodicSleep == [ pc |-> "sleep", strategy |-> 0, position |-> 0 ]
\* the task _periodic_tasks has returned
PeriodicEnded == [ pc |-> "ended", strategy |-> 0, position |-> 0 ]
\* toggle_live_mode has not been called
NoCriteria == [ positive_pnl |-> FALSE, min_trades |-> FALSE, min_win_rate |-> FALSE ]
NoResponse == [ status |-> 0, strategy |-> 0, enable |-> FALSE, rejected |-> FALSE,
                criteria |-> NoCriteria ]
\* no call of start is in flight
StartIdle == [ pc |-> "idle", calls |-> 0 ]

EngineInit ==
  /\ emergency_stopped = FALSE
  /\ latest_market_data = [y \in Symbols |-> None]
  /\ dispatch = DispatchIdle
  /\ ticks = 0
  /\ estop = EstopIdle
  /\ periodic = PeriodicSleep
  /\ emergency_log = << >>
  /\ is_running = TRUE
  /\ loops = <<"sleep">>
  /\ starting = StartIdle
  /\ response = NoResponse

\* the caller of the client, between two calls
OwnerIdle == [ pc |-> "idle", call |-> "None", instruments |-> {},
               websocket |-> 0, raised |-> "None", calls |-> 0 ]

\* the three channels of the ConnectionManager
Channels == {"market_data", "system_status", "trades"}

\* no call of broadcast_to_group in progress
NoBroadcast == [ pc |-> "idle", connection_type |-> "None", copy |-> {},
                 sent |-> {}, disconnected_connections |-> {} ]

\* ConnectionManager.__init__, and no side-effect-free method called yet
ManagerInit ==
  /\ active_connections = [c \in Channels |-> {}]
  /\ broadcast = NoBroadcast
  /\ joins = [w \in 1..MaxListeners |-> "idle"]
  /\ is_market_connected = FALSE
  /\ returned = << >>

\* DhanHQWebSocketClient.__init__, in the manager that owns the client
ClientInit ==
  /\ ManagerInit
  /\ websocket = 0
  /\ is_connected = FALSE
  /\ subscriptions = {}
  /\ listeners = << >>
  /\ owner = OwnerIdle
  /\ frames = {}
  /\ ohlcv_data = [y \in Symbols |-> [tf \in Timeframes |-> None]]
  /\ tick_log = << >>
  /\ received = << >>
  /\ notified = << >>

\* the price_data of PVAStrategy.__init__
NewPriceData == [tf \in Timeframes |-> << >>]

\* a client and a PVA strategy, as constructed
FeedInit ==
  /\ ClientInit
  /\ price_data = NewPriceData
  /\ indicators = None
  /\ generated = << >>

\* the exit price _check_eod_exit uses for a position
EodPrice(position) ==
  IF latest_market_data[position.symbol] = None
  THEN position.entry_price
  ELSE latest_market_data[position.symbol][1]

\* the condition under which _check_eod_exit flattens
EodWindow(t) == Hour(t) = eod_hour /\ Minute(t) >= eod_minute

(***************************************************************************)
(* StrategyEngine: tick dispatch                                           *)
(***************************************************************************)
\* what analyze_market_data / generate_signals of one strategy answer to a
\* tick: no indicators ("empty"), indicators and no signal ("none"), or a
\* signal of a direction on the tick's symbol
Responses ==
  { [kind |-> "empty", signal_type |-> "None"],
    [kind |-> "none", signal_type |-> "None"],
    [kind |-> "signal", signal_type |-> "LONG"] }

\* the ticks the feed delivers to the engine: _process_market_data builds
\* them without the key avg_volume
FeedMarketData ==
  { [symbol |-> "Nifty50", ltp |-> p, volume |-> 100, avg_volume |-> None] :
      p \in {100, 104} }

RECURSIVE SelectActive(_, _)
SelectActive(st, order) ==
  IF order = << >> THEN << >>
  ELSE IF st[Head(order)].is_simulation_active
       THEN <<Head(order)>> \o SelectActive(st, Tail(order))
       ELSE SelectActive(st, Tail(order))

\* StrategyEngine.get_active_strategies
get_active_strategies(st) == SelectActive(st, RegistryOrder)

\* the loop of _process_strategies over the strategies still in the
\* snapshot, run up to its next await: strategies without indicators are
\* skipped, the others have their positions updated, and the loop stops at
\* the first signal (awaiting create_signal) or at the end of the snapshot
RECURSIVE RunLoop(_, _, _, _, _)
RunLoop(st, queue, market_data, plan, t) ==
  IF queue = << >>
  THEN [strat |-> st, queue |-> << >>, strategy |-> 0, signal |-> NoSignal]
  ELSE LET s == Head(queue)
           r == plan[s]
           st1 == [st EXCEPT ![s] = update_positions(@, market_data, t)]
       IN IF r.kind = "empty" THEN RunLoop(st, Tail(queue), market_data, plan, t)
          ELSE IF r.kind = "none" THEN RunLoop(st1, Tail(queue), market_data, plan, t)
          ELSE [strat |-> st1, queue |-> Tail(queue), strategy |-> s,
                signal |-> MakeSignal(s, market_data.symbol, r.signal_type, t)]

\* the dispatch after the loop ran up to its next await
AfterLoop(loop) ==
  IF loop.strategy = 0 THEN DispatchIdle
  ELSE [dispatch EXCEPT !.pc = "create_signal", !.queue = loop.queue,
                        !.strategy = loop.strategy, !.signal = loop.signal,
                        !.stopped_at_signal = emergency_stopped]

\* _on_market_data up to the await of store_ohlcv_data
OnMarketData ==
  \E md \in FeedMarketData, plan \in [StrategyIds -> Responses] :
    /\ dispatch.pc = "idle"
    /\ ticks < MaxTicks
    /\ ticks' = ticks + 1
    /\ latest_market_data' = [latest_market_data EXCEPT ![md.symbol] = Some(md.ltp)]
    /\ dispatch' = [DispatchIdle EXCEPT !.pc = "store_ohlcv", !.market_data = md,
                                        !.plan = plan]
    /\ UNCHANGED <<feedVars, lifeVars, strat, now, emergency_stopped, estop, periodic, emergency_log>>

\* store_ohlcv_data returned (or raised: _store_ohlcv_data logs it); the
\* check of emergency_stopped and _process_strategies up to its first await
StoreOhlcvDone ==
  /\ dispatch.pc = "store_ohlcv"
  /\ IF emergency_stopped
     THEN /\ dispatch' = DispatchIdle
          /\ UNCHANGED strat
     ELSE LET loop == RunLoop(strat, get_active_strategies(strat),
                              dispatch.market_data, dispatch.plan, now)
          IN /\ strat' = loop.strat
             /\ dispatch' = AfterLoop(loop)
  /\ UNCHANGED <<feedVars, lifeVars, now, emergency_stopped, latest_market_data, ticks, estop,
                 periodic, emergency_log>>

\* create_signal returned: execute_virtual_trade; an accepted signal goes on
\* to await create_trade, a rejected one returns to the loop
CreateSignalOk ==
  /\ dispatch.pc = "create_signal"
  /\ LET s == dispatch.strategy
         st1 == [strat EXCEPT ![s] = execute_virtual_trade(@, dispatch.signal, now)]
     IN IF Accepts(strat[s], dispatch.signal, now)
        THEN /\ strat' = st1
             /\ dispatch' = [dispatch EXCEPT !.pc = "create_trade"]
        ELSE LET loop == RunLoop(strat, dispatch.queue, dispatch.market_data,
                                 dispatch.plan, now)
             IN /\ strat' = loop.strat
                /\ dispatch' = AfterLoop(loop)
  /\ UNCHANGED <<feedVars, lifeVars, now, emergency_stopped, latest_market_data, ticks, estop,
                 periodic, emergency_log>>

\* create_signal raised: the except clause of _process_signal logs it and
\* the loop goes on with the next strategy
CreateSignalFail ==
  /\ dispatch.pc = "create_signal"
  /\ LET loop == RunLoop(strat, dispatch.queue, dispatch.market_data,
                         dispatch.plan, now)
     IN /\ strat' = loop.strat
        /\ dispatch' = AfterLoop(loop)
  /\ UNCHANGED <<feedVars, lifeVars, now, emergency_stopped, latest_market_data, ticks, estop,
                 periodic, emergency_log>>

\* create_trade and the update of the signal row returned or raised: nothing
\* in memory depends on them, and the loop goes on
CreateTradeDone ==
  /\ dispatch.pc = "create_trade"
  /\ LET loop == RunLoop(strat, dispatch.queue, dispatch.market_data,
                         dispatch.plan, now)
     IN /\ strat' = loop.strat
        /\ dispatch' = AfterLoop(loop)
  /\ UNCHANGED <<feedVars, lifeVars, now, emergency_stopped, latest_market_data, ticks, estop,
                 periodic, emergency_log>>

(***************************************************************************)
(* StrategyEngine: emergency stop                                          *)
(***************************************************************************)
\* emergency_stop that leaves the simulation flag alone
emergency_flags_live_only(st) == [st EXCEPT !.is_live_mode = FALSE]

\* what the first loop of emergency_stop does to one strategy
emergency_flags(st) ==
  [st EXCEPT !.is_live_mode = FALSE, !.is_simulation_active = FALSE]

\* emergency_stop up to the await of create_emergency_stop_log
EmergencyStop ==
  /\ estop.pc = "idle"
  /\ estop.calls < MaxStops
  /\ emergency_stopped' = TRUE
  /\ strat' = [s \in StrategyIds |-> emergency_flags(strat[s])]
  /\ estop' = [ pc |-> "log",
                affected_strategies |->
                  [i \in 1..Len(RegistryOrder) |->
                     [ strategy_id |-> RegistryOrder[i],
                       was_live |-> strat'[RegistryOrder[i]].is_live_mode ]],
                live_strategies_stopped |->
                  Cardinality({ s \in StrategyIds : strat[s].is_live_mode }),
                calls |-> estop.calls + 1 ]
  /\ UNCHANGED <<feedVars, lifeVars, now, latest_market_data, dispatch, ticks, periodic, emergency_log>>

\* create_emergency_stop_log returned
EstopLogOk ==
  /\ estop.pc = "log"
  /\ emergency_log' = Append(emergency_log,
        [ affected_strategies |-> estop.affected_strategies,
          total_strategies_stopped |-> estop.live_strategies_stopped ])
  /\ estop' = [estop EXCEPT !.pc = "update"]
  /\ UNCHANGED <<feedVars, lifeVars, strat, now, emergency_stopped, latest_market_data, dispatch,
                 ticks, periodic>>

\* create_emergency_stop_log raised: emergency_stop ends with the exception
EstopLogFail ==
  /\ estop.pc = "log"
  /\ estop' = [estop EXCEPT !.pc = "idle"]
  /\ UNCHANGED <<feedVars, lifeVars, strat, now, emergency_stopped, latest_market_data, dispatch,
                 ticks, periodic, emergency_log>>

\* the update_strategy calls of the second loop returned, or one raised
EstopUpdateDone ==
  /\ estop.pc = "update"
  /\ estop' = [estop EXCEPT !.pc = "idle"]
  /\ UNCHANGED <<feedVars, lifeVars, strat, now, emergency_stopped, latest_market_data, dispatch,
                 ticks, periodic, emergency_log>>

(***************************************************************************)
(* StrategyEngine: periodic maintenance                                    *)
(***************************************************************************)
\* the next position the loops of _check_eod_exit find OPEN, after position
\* p of the k-th strategy: <<k, i>>, or <<0, 0>> when the loops end
RECURSIVE NextOpen(_, _, _)
NextOpen(st, k, p) ==
  IF k > Len(RegistryOrder) THEN <<0, 0>>
  ELSE LET later == { i \in OpenPositions(st[RegistryOrder[k]]) : i > p }
       IN IF later # {}
          THEN <<k, CHOOSE i \in later : \A j \in later : i <= j>>
          ELSE NextOpen(st, k + 1, 0)

\* _periodic_tasks at the test of its while loop
PeriodicTop == IF is_running THEN PeriodicSleep ELSE PeriodicEnded

\* _check_eod_exit from position p of the k-th strategy up to its next await
\* of update_trade, or to its end
EodStep(k, p) ==
  LET nxt == NextOpen(strat, k, p)
      s == RegistryOrder[nxt[1]]
  IN IF nxt = <<0, 0>>
     THEN /\ periodic' = PeriodicTop
          /\ UNCHANGED strat
     ELSE /\ strat' = [strat EXCEPT ![s] =
                  _close_position(@, nxt[2], EodPrice(@.virtual_positions[nxt[2]]),
                                  "EOD", now)]
          /\ periodic' = [pc |-> "update_trade", strategy |-> nxt[1],
                          position |-> nxt[2]]

\* _periodic_tasks wakes from its sleep
PeriodicWake ==
  /\ periodic.pc = "sleep"
  /\ IF ~ emergency_stopped /\ EodWindow(now)
     THEN EodStep(1, 0)
     ELSE /\ periodic' = PeriodicTop
          /\ UNCHANGED strat
  /\ UNCHANGED <<feedVars, lifeVars, now, emergency_stopped, latest_market_data, dispatch, ticks,
                 estop, emergency_log>>

\* update_trade returned: the loops of _check_eod_exit go on
PeriodicUpdateTradeOk ==
  /\ periodic.pc = "update_trade"
  /\ EodStep(periodic.strategy, periodic.position)
  /\ UNCHANGED <<feedVars, lifeVars, now, emergency_stopped, latest_market_data, dispatch, ticks,
                 estop, emergency_log>>

\* update_trade raised: _periodic_tasks logs it and sleeps again
PeriodicUpdateTradeFail ==
  /\ periodic.pc = "update_trade"
  /\ periodic' = PeriodicTop
  /\ UNCHANGED <<feedVars, lifeVars, strat, now, emergency_stopped, latest_market_data, dispatch,
                 ticks, estop, emergency_log>>

(***************************************************************************)
(* The clock and the specification                                          *)
(***************************************************************************)
\* the wall clock advances
Advance ==
  /\ now < ClockStart + MaxClock * ClockStep
  /\ now' = now + ClockStep
  /\ UNCHANGED <<feedVars, strat, engineVars>>

\* strategies are registered with any mix of flags
Init ==
  /\ strat \in [StrategyIds -> { NewStrategy(a, l) : a \in BOOLEAN, l \in BOOLEAN }]
  /\ now = ClockStart
  /\ EngineInit
  /\ FeedInit

Next ==
  \/ OnMarketData
  \/ StoreOhlcvDone
  \/ CreateSignalOk
  \/ CreateSignalFail
  \/ CreateTradeDone
  \/ EmergencyStop
  \/ EstopLogOk
  \/ EstopLogFail
  \/ EstopUpdateDone
  \/ PeriodicWake
  \/ PeriodicUpdateTradeOk
  \/ PeriodicUpdateTradeFail
  \/ Advance

Spec == Init /\ [][Next]_vars

(***************************************************************************)
(* StrategyEngine: start and stop, with the engine's other coroutines      *)
(***************************************************************************)
\* start that does not test is_running
start_allowed_always(running) == TRUE

\* start: the test of is_running on entry
start_allowed(running) == ~ running

\* start() up to the await of market_client.connect()
Start ==
  /\ starting.pc = "idle"
  /\ starting.calls < MaxStarts
  /\ start_allowed(is_running)
  /\ is_running' = TRUE
  /\ emergency_stopped' = FALSE
  /\ starting' = [pc |-> "connect", calls |-> starting.calls + 1]
  /\ UNCHANGED <<feedVars, strat, now, latest_market_data, dispatch, ticks,
                 estop, periodic, emergency_log, response>>

\* connect() and subscribe_nifty_banknifty_options() returned: the periodic
\* task is created.  A task that is still alive from an earlier start is
\* the one task kept here.
StartDone ==
  /\ starting.pc = "connect"
  /\ starting' = [starting EXCEPT !.pc = "idle"]
  /\ periodic' = IF periodic.pc = "ended" THEN PeriodicSleep ELSE periodic
  /\ UNCHANGED <<feedVars, strat, now, emergency_stopped, latest_market_data,
                 dispatch, ticks, estop, emergency_log, is_running, response>>

\* connect() or subscribe_nifty_banknifty_options() raised to the caller
StartFail ==
  /\ starting.pc = "connect"
  /\ starting' = [starting EXCEPT !.pc = "idle"]
  /\ UNCHANGED <<feedVars, strat, now, emergency_stopped, latest_market_data,
                 dispatch, ticks, estop, periodic, emergency_log, is_running,
                 response>>

\* stop() on a running engine
Stop ==
  /\ is_running
  /\ is_running' = FALSE
  /\ UNCHANGED <<feedVars, strat, now, emergency_stopped, latest_market_data,
                 dispatch, ticks, estop, periodic, emergency_log, starting,
                 response>>

\* a started engine: strategy 1 is simulating and live, strategy 2 inactive
LifeInit ==
  /\ strat = [s \in StrategyIds |-> NewStrategy(s = 1, s = 1)]
  /\ now = ClockStart
  /\ EngineInit
  /\ FeedInit

LifeNext ==
  \/ Start
  \/ StartDone
  \/ StartFail
  \/ Stop
  \/ OnMarketData
  \/ StoreOhlcvDone
  \/ CreateSignalOk
  \/ CreateSignalFail
  \/ CreateTradeDone
  \/ EmergencyStop
  \/ EstopLogOk
  \/ EstopLogFail
  \/ EstopUpdateDone
  \/ PeriodicWake
  \/ PeriodicUpdateTradeOk
  \/ PeriodicUpdateTradeFail
  \/ Advance

LifeSpec == LifeInit /\ [][LifeNext]_vars

(***************************************************************************)
(* Promotion to live mode: BaseStrategy.validate_for_live_mode and the     *)
(* endpoint toggle_live_mode, called on an engine that holds the strategy  *)
(***************************************************************************)
\* the win_rate attribute as a fraction <<numerator, denominator>>:
\* winning_trades over virtual_trade_count, and 0 while there is no trade
win_rate(st) ==
  IF st.virtual_trade_count > 0
  THEN <<st.winning_trades, st.virtual_trade_count>>
  ELSE <<0, 1>>

\* validate_for_live_mode that passes whatever the win rate is
validate_for_live_mode_any_win_rate(st) ==
  LET criteria ==
        [ positive_pnl |-> st.virtual_pnl > 0,
          min_trades   |-> st.virtual_trade_count >= min_trades,
          min_win_rate |-> /\ st.virtual_trade_count > 0
                           /\ 2 * st.winning_trades >= st.virtual_trade_count ]
  IN [ passed   |-> criteria.positive_pnl /\ criteria.min_trades,
       criteria |-> criteria,
       metrics  |-> [ virtual_pnl |-> st.virtual_pnl,
                      trade_count |-> st.virtual_trade_count,
                      win_rate |-> win_rate(st) ] ]

\* BaseStrategy.validate_for_live_mode; win_rate is winning_trades over
\* virtual_trade_count, and 0 while there is no trade
validate_for_live_mode(st) ==
  LET criteria ==
        [ positive_pnl |-> st.virtual_pnl > 0,
          min_trades   |-> st.virtual_trade_count >= min_trades,
          min_win_rate |-> /\ st.virtual_trade_count > 0
                           /\ 2 * st.winning_trades >= st.virtual_trade_count ]
  IN [ passed   |-> criteria.positive_pnl /\ criteria.min_trades
                      /\ criteria.min_win_rate,
       criteria |-> criteria,
       metrics  |-> [ virtual_pnl |-> st.virtual_pnl,
                      trade_count |-> st.virtual_trade_count,
                      win_rate |-> win_rate(st) ] ]

\* toggle_live_mode that does not look at the validation
promotion_allowed_unchecked(enable, validation) == TRUE

\* toggle_live_mode: the request goes on to set the flag
promotion_allowed(enable, validation) == ~ enable \/ validation.passed

\* toggle_live_mode(strategy_id, enable); every call of the handler on the
\* sink is synchronous, so the handler is one step
ToggleLiveMode ==
  \E s \in StrategyIds, enable \in BOOLEAN :
    LET validation == validate_for_live_mode(strat[s]) IN
      /\ IF promotion_allowed(enable, validation)
         THEN /\ strat' = [strat EXCEPT ![s].is_live_mode = enable]
              /\ response' = [ status |-> 200, strategy |-> s, enable |-> enable,
                               rejected |-> FALSE, criteria |-> NoCriteria ]
         ELSE /\ response' = [ status |-> 500, strategy |-> s, enable |-> enable,
                               rejected |-> TRUE,
                               criteria |-> validation.criteria ]
              /\ UNCHANGED strat
      /\ UNCHANGED <<feedVars, now, emergency_stopped, latest_market_data,
                     dispatch, ticks, estop, periodic, emergency_log,
                     is_running, starting>>

\* toggle_live_mode: a call on the sink raises, before the flag is written
ToggleLiveModeFail ==
  \E s \in StrategyIds, enable \in BOOLEAN :
    /\ promotion_allowed(enable, validate_for_live_mode(strat[s]))
    /\ response' = [ status |-> 500, strategy |-> s, enable |-> enable,
                     rejected |-> FALSE, criteria |-> NoCriteria ]
    /\ UNCHANGED <<feedVars, strat, now, emergency_stopped, latest_market_data,
                   dispatch, ticks, estop, periodic, emergency_log,
                   is_running, starting>>

\* one more closed trade in the track record: a LONG position on Nifty50
\* closed at exit_price
Traded(st, exit_price, exit_reason, t) ==
  LET opened == [st EXCEPT !.virtual_positions =
                    Append(@, NewPosition(MakeSignal(1, "Nifty50", "LONG", t)))]
  IN _close_position(opened, Len(opened.virtual_positions), exit_price,
                     exit_reason, t)

\* a strategy whose track record is wins trades closed at the target and
\* losses trades closed at the stop
RECURSIVE WithRecord(_, _, _, _)
WithRecord(st, wins, losses, t) ==
  IF wins > 0 THEN WithRecord(Traded(st, 104, "TARGET", t), wins - 1, losses, t)
  ELSE IF losses > 0
       THEN WithRecord(Traded(st, 97, "STOP_LOSS", t), wins, losses - 1, t)
       ELSE st

\* strategy 1 has any track record and any flags; strategy 2 is new
LiveInit ==
  /\ \E wins \in 0..MaxRecord, losses \in 0..MaxRecord, a \in BOOLEAN, l \in BOOLEAN :
       strat = [s \in StrategyIds |->
                  IF s = 1
                  THEN WithRecord(NewStrategy(a, l), wins, losses, ClockStart)
                  ELSE NewStrategy(FALSE, FALSE)]
  /\ now = ClockStart
  /\ EngineInit
  /\ FeedInit

LiveNext ==
  \/ ToggleLiveMode
  \/ ToggleLiveModeFail

LiveSpec == LiveInit /\ [][LiveNext]_vars

(***************************************************************************)
(* A strategy driven directly: the methods of BaseStrategy called in any   *)
(* order on strategy 1, with the wall clock advancing                      *)
(***************************************************************************)
RiskInit ==
  /\ strat = [s \in StrategyIds |-> NewStrategy(FALSE, FALSE)]
  /\ now = ClockStart
  /\ EngineInit
  /\ FeedInit

\* execute_virtual_trade(signal) for a signal generated now
RiskExecute ==
  \E y \in Symbols, tt \in TradeTypes :
    /\ Len(strat[1].virtual_positions) < MaxPositions
    /\ strat' = [strat EXCEPT ![1] =
                   execute_virtual_trade(@, MakeSignal(1, y, tt, now), now)]
    /\ UNCHANGED <<feedVars, now, engineVars>>

\* update_positions(market_data)
RiskUpdate ==
  \E md \in MarketData :
    /\ ticks < RiskTicks
    /\ ticks' = ticks + 1
    /\ strat' = [strat EXCEPT ![1] = update_positions(@, md, now)]
    /\ UNCHANGED <<feedVars, lifeVars, now, emergency_stopped, latest_market_data, dispatch, estop,
                   periodic, emergency_log>>

RiskNext == RiskExecute \/ RiskUpdate \/ Advance

RiskSpec == RiskInit /\ [][RiskNext]_vars

(***************************************************************************)
(* DhanHQWebSocketClient: connect, subscribe_to_feed, the listener task    *)
(* and its reconnect loop.  The owner calls subscribe_to_feed; the server  *)
(* decides whether a handshake or a send succeeds and when a stream ends.  *)
(***************************************************************************)
\* _handle_reconnection: max_retries
max_retries == 5

\* self.instruments
Instruments == {"NSE_INDEX|Nifty 50", "NSE_INDEX|Nifty Bank"}
\* the instrument lists the owner subscribes to
OwnerRequests == { {"NSE_INDEX|Nifty 50"}, Instruments }

\* asyncio.sleep(2 ** retry_count) with the factor off by one
backoff_doubled(retry_count) == 2 ^ (retry_count + 1)

\* _handle_reconnection: the argument of asyncio.sleep
backoff(retry_count) == 2 ^ retry_count

\* the task created by connect(): _listen_messages on connection w
NewListener(w) ==
  [ pc |-> "listen", websocket |-> w, ended_by |-> "None", retry_count |-> 0,
    delays |-> << >>, sending |-> {}, sending_on |-> 0, tick |-> "None" ]

\* _handle_reconnection from the test of its while loop: either the next
\* pass begins, sleeps and calls connect(), or the loop is left without a
\* break.  Nothing of the client is read or written between the end of the
\* sleep and the handshake, so the two awaits are one position "connect".
LoopHead(l, connected) ==
  IF l.retry_count < max_retries /\ ~ connected
  THEN [l EXCEPT !.pc = "connect", !.delays = Append(@, backoff(l.retry_count))]
  ELSE IF l.retry_count >= max_retries
       THEN [l EXCEPT !.pc = "exhausted"]
       ELSE [l EXCEPT !.pc = "ended"]

\* connect(): the handshake succeeded
Connected ==
  /\ websocket' = Len(listeners) + 1
  /\ is_connected' = TRUE

\* _listen_messages: a market-data frame arrives; _process_market_data
\* applies it to the bars and awaits the registered callbacks
ListenerTick(t) ==
  \E symbol \in Instruments :
    /\ listeners[t].pc = "listen"
    /\ listeners' = [listeners EXCEPT ![t].pc = "dispatch", ![t].tick = symbol]
    /\ UNCHANGED <<barVars, stratVars, engineVars, websocket, is_connected, subscriptions,
                   owner, frames>>

\* _notify_callbacks returned: the listener waits for the next frame
ListenerTickDone(t) ==
  /\ listeners[t].pc = "dispatch"
  /\ listeners' = [listeners EXCEPT ![t].pc = "listen", ![t].tick = "None"]
  /\ UNCHANGED <<barVars, stratVars, engineVars, websocket, is_connected, subscriptions,
                 owner, frames>>

\* _listen_messages: the stream raises ConnectionClosed
ListenerClosed(t) ==
  /\ listeners[t].pc = "listen"
  /\ is_connected' = FALSE
  /\ listeners' = [listeners EXCEPT ![t] =
       LoopHead([@ EXCEPT !.ended_by = "ConnectionClosed"], FALSE)]
  /\ UNCHANGED <<barVars, stratVars, engineVars, websocket, subscriptions, owner, frames>>

\* _listen_messages: the stream raises any other exception
ListenerError(t) ==
  /\ listeners[t].pc = "listen"
  /\ listeners' = [listeners EXCEPT ![t] =
       LoopHead([@ EXCEPT !.ended_by = "Exception"], is_connected)]
  /\ UNCHANGED <<barVars, stratVars, engineVars, websocket, is_connected, subscriptions, owner, frames>>

\* _handle_reconnection: connect() succeeds; the subscriptions are sent
\* again if there are any, else the loop breaks
ReconnectOk(t) ==
  /\ listeners[t].pc = "connect"
  /\ Len(listeners) < MaxConnections
  /\ Connected
  /\ listeners' = Append(
       [listeners EXCEPT ![t] =
          IF subscriptions # {}
          THEN [@ EXCEPT !.pc = "send", !.sending = subscriptions,
                         !.sending_on = Len(listeners) + 1]
          ELSE [@ EXCEPT !.pc = "reconnected"]],
       NewListener(Len(listeners) + 1))
  /\ UNCHANGED <<barVars, stratVars, engineVars, subscriptions, owner, frames>>

\* _handle_reconnection: connect() raises
ReconnectFail(t) ==
  /\ listeners[t].pc = "connect"
  /\ listeners' = [listeners EXCEPT ![t] =
       LoopHead([@ EXCEPT !.retry_count = @ + 1], is_connected)]
  /\ UNCHANGED <<barVars, stratVars, engineVars, websocket, is_connected, subscriptions, owner, frames>>

\* _handle_reconnection: the send of subscribe_to_feed succeeds, break
ResubscribeOk(t) ==
  /\ listeners[t].pc = "send"
  /\ frames' = frames \cup {[ websocket |-> listeners[t].sending_on,
                              instruments |-> listeners[t].sending ]}
  /\ subscriptions' = subscriptions \cup listeners[t].sending
  /\ listeners' = [listeners EXCEPT ![t].pc = "reconnected"]
  /\ UNCHANGED <<barVars, stratVars, engineVars, websocket, is_connected, owner>>

\* _handle_reconnection: the send of subscribe_to_feed raises
ResubscribeFail(t) ==
  /\ listeners[t].pc = "send"
  /\ listeners' = [listeners EXCEPT ![t] =
       LoopHead([@ EXCEPT !.retry_count = @ + 1], is_connected)]
  /\ UNCHANGED <<barVars, stratVars, engineVars, websocket, is_connected, subscriptions, owner, frames>>

\* the owner calls subscribe_to_feed(instruments)
OwnerSubscribe ==
  \E instruments \in OwnerRequests :
    /\ owner.pc = "idle"
    /\ owner.calls < MaxOwnerCalls
    /\ owner' = [ pc |-> IF is_connected THEN "send" ELSE "connect",
                  call |-> "subscribe_to_feed",
                  instruments |-> instruments, websocket |-> websocket,
                  raised |-> "None", calls |-> owner.calls + 1 ]
    /\ UNCHANGED <<barVars, stratVars, engineVars, websocket, is_connected, subscriptions, listeners, frames>>

\* the owner calls connect(), as StrategyEngine.start and
\* ConnectionManager._start_market_feed do, whatever is_connected says
OwnerConnect ==
  /\ owner.pc = "idle"
  /\ owner.calls < MaxOwnerCalls
  /\ owner' = [ pc |-> "connect", call |-> "connect", instruments |-> {},
                websocket |-> websocket, raised |-> "None",
                calls |-> owner.calls + 1 ]
  /\ UNCHANGED <<barVars, stratVars, engineVars, websocket, is_connected, subscriptions,
                 listeners, frames>>

\* connect() succeeds; inside subscribe_to_feed the frame is then handed to
\* send
OwnerConnectOk ==
  /\ owner.pc = "connect"
  /\ Len(listeners) < MaxConnections
  /\ Connected
  /\ listeners' = Append(listeners, NewListener(Len(listeners) + 1))
  /\ owner' = IF owner.call = "connect"
              THEN [owner EXCEPT !.pc = "idle"]
              ELSE [owner EXCEPT !.pc = "send", !.websocket = Len(listeners) + 1]
  /\ UNCHANGED <<barVars, stratVars, engineVars, subscriptions, frames>>

\* subscribe_to_feed: connect() raises to the caller
OwnerConnectFail ==
  /\ owner.pc = "connect"
  /\ owner' = [owner EXCEPT !.pc = "idle", !.raised = "connect"]
  /\ UNCHANGED <<barVars, stratVars, engineVars, websocket, is_connected, subscriptions, listeners, frames>>

\* subscribe_to_feed: send succeeds, the instruments are recorded
OwnerSendOk ==
  /\ owner.pc = "send"
  /\ frames' = frames \cup {[ websocket |-> owner.websocket,
                              instruments |-> owner.instruments ]}
  /\ subscriptions' = subscriptions \cup owner.instruments
  /\ owner' = [owner EXCEPT !.pc = "idle"]
  /\ UNCHANGED <<barVars, stratVars, engineVars, websocket, is_connected, listeners>>

\* subscribe_to_feed: send raises to the caller
OwnerSendFail ==
  /\ owner.pc = "send"
  /\ owner' = [owner EXCEPT !.pc = "idle", !.raised = "send"]
  /\ UNCHANGED <<barVars, stratVars, engineVars, websocket, is_connected, subscriptions, listeners, frames>>

FeedInitAll ==
  /\ strat = [s \in StrategyIds |-> NewStrategy(FALSE, FALSE)]
  /\ now = ClockStart
  /\ EngineInit
  /\ FeedInit

FeedNext ==
  \/ OwnerConnect
  \/ OwnerSubscribe
  \/ OwnerConnectOk
  \/ OwnerConnectFail
  \/ OwnerSendOk
  \/ OwnerSendFail
  \/ \E t \in 1..Len(listeners) : ListenerTick(t)
  \/ \E t \in 1..Len(listeners) : ListenerTickDone(t)
  \/ \E t \in 1..Len(listeners) : ListenerClosed(t)
  \/ \E t \in 1..Len(listeners) : ListenerError(t)
  \/ \E t \in 1..Len(listeners) : ReconnectOk(t)
  \/ \E t \in 1..Len(listeners) : ReconnectFail(t)
  \/ \E t \in 1..Len(listeners) : ResubscribeOk(t)
  \/ \E t \in 1..Len(listeners) : ResubscribeFail(t)

FeedSpec == FeedInitAll /\ [][FeedNext]_vars

(***************************************************************************)
(* Claims about the strategy's risk and exit rules                         *)
(***************************************************************************)
\* C3: in every reachable state a strategy holds at most max_open_trades
\* OPEN positions, whatever signals were accepted or rejected and whatever
\* positions were closed.
C3_OpenWithinMax ==
  \A s \in StrategyIds : Cardinality(OpenPositions(strat[s])) <= max_open_trades

\* a state where the maximum is reached while the strategy could still be
\* offered signals
C3_Witness ==
  /\ Cardinality(OpenPositions(strat[1])) = max_open_trades
  /\ Len(strat[1].virtual_positions) < MaxPositions

\* C5: the per-tick exit check gives priority to the target/stop hit: for
\* every open position and every tick of its symbol on which the target or
\* the stop is hit, the position closes with reason TARGET or STOP_LOSS,
\* also when the volume is low or the cutoff has passed on that tick.
C5_PriceExitWins ==
  \A md \in MarketData : \A i \in OpenPositions(strat[1]) :
    LET position == strat[1].virtual_positions[i]
        after == update_positions(strat[1], md, now).virtual_positions[i]
    IN (position.symbol = md.symbol /\ PriceExit(position, md.ltp) # "None")
         => after.exit_reason = PriceExit(position, md.ltp)

(***************************************************************************)
(* Claims about the engine                                                 *)
(***************************************************************************)
NoneActive(st) ==
  \A s \in StrategyIds : ~ st[s].is_simulation_active /\ ~ st[s].is_live_mode

\* C1: the step in which emergency_stop flips the flags leaves every
\* registered strategy with is_simulation_active = false and is_live_mode =
\* false, whatever mix of simulating, live and inactive strategies it found.
C1_StopClearsAllFlags ==
  [][ (estop.pc = "idle" /\ estop'.pc = "log") =>
        (emergency_stopped' /\ NoneActive(strat')) ]_vars

\* emergency_stop has flipped the flags of an engine that held live
\* strategies, and none is simulating or live
C1_Witness ==
  /\ estop.pc = "log"
  /\ estop.live_strategies_stopped > 0
  /\ emergency_stopped
  /\ NoneActive(strat)

\* C2: once emergency_stop has set the stop flag, no strategy opens a
\* position from a signal generated afterwards, under every interleaving
\* with tick dispatch.
C2_NoEntryAfterStop ==
  [][ \A s \in StrategyIds :
        Len(strat'[s].virtual_positions) > Len(strat[s].virtual_positions)
          => ~ dispatch.stopped_at_signal ]_vars

\* C4: a position that is CLOSED never changes again (so it is closed at
\* most once), under any interleaving of the per-tick maintenance and the
\* periodic end-of-day flatten; positions are never removed.
C4_ClosedIsFinal ==
  [][ \A s \in StrategyIds :
        /\ Len(strat'[s].virtual_positions) >= Len(strat[s].virtual_positions)
        /\ \A i \in 1..Len(strat[s].virtual_positions) :
             strat[s].virtual_positions[i].status = "CLOSED"
               => strat'[s].virtual_positions[i] = strat[s].virtual_positions[i] ]_vars

\* a position closed by the end-of-day flatten, which is suspended at its
\* await while a tick is being dispatched
C4_Witness ==
  /\ periodic.pc = "update_trade"
  /\ dispatch.pc = "create_signal"
  /\ \E s \in StrategyIds : \E i \in 1..Len(strat[s].virtual_positions) :
       /\ strat[s].virtual_positions[i].status = "CLOSED"
       /\ strat[s].virtual_positions[i].exit_reason = "EOD"

\* C6: a failure of the persistence sink never aborts trade execution: when
\* the await of create_signal ends, with a result or with an error, a signal
\* that passes the entry rules has its virtual position opened.
C6_SinkFailureKeepsTrade ==
  [][ (/\ dispatch.pc = "create_signal"
       /\ dispatch' # dispatch
       /\ Accepts(strat[dispatch.strategy], dispatch.signal, now))
        => Len(strat'[dispatch.strategy].virtual_positions)
             = Len(strat[dispatch.strategy].virtual_positions) + 1 ]_vars

(***************************************************************************)
(* Claims about the feed transport                                         *)
(***************************************************************************)
ClaimedWaits == <<1, 2, 4, 8, 16>>

IsPrefix(s, t) == Len(s) <= Len(t) /\ \A i \in 1..Len(s) : s[i] = t[i]

\* _handle_reconnection has returned
Returned(l) == l.pc \in {"reconnected", "exhausted", "ended"}

\* C7: the waits of a reconnect loop are 1, 2, 4, 8, 16 in this order, one
\* before each attempt; a loop that gives up has made exactly 5 attempts
\* and makes no further one; and a loop entered because the stream closed
\* returns, when no connection was established since, only by giving up.
C7_FiveAttemptsThenStop ==
  \A t \in 1..Len(listeners) :
    LET l == listeners[t] IN
      /\ IsPrefix(l.delays, ClaimedWaits)
      /\ l.pc = "exhausted" => (l.delays = ClaimedWaits /\ l.retry_count = 5)
      /\ (l.ended_by = "ConnectionClosed" /\ websocket = l.websocket /\ Returned(l))
           => l.pc = "exhausted"

\* a stream closed, every attempt to connect failed, and the loop gave up
C7_Witness ==
  \E t \in 1..Len(listeners) :
    /\ listeners[t].ended_by = "ConnectionClosed"
    /\ listeners[t].pc = "exhausted"
    /\ listeners[t].delays = ClaimedWaits
    /\ websocket = listeners[t].websocket
    /\ ~ is_connected

\* what the owner of the client can read from it, and what its calls raised
OwnerView ==
  [ is_connected |-> is_connected, websocket |-> websocket,
    subscriptions |-> subscriptions, raised |-> owner.raised ]

\* C8: the step in which a reconnect loop exhausts its attempts changes
\* something the owner of the transport can observe, so that the terminal
\* condition is distinct from an ordinary not-connected state.
C8_ExhaustionSurfaced ==
  [][ \A t \in 1..Len(listeners) :
        (listeners[t].pc # "exhausted" /\ listeners'[t].pc = "exhausted")
          => OwnerView' # OwnerView ]_vars

\* C9: a listener that has ended, by ConnectionClosed or by any other
\* error, has made at least one reconnect attempt, and the transport is
\* never marked connected while no listener is running.
C9_ListenerOrReconnect ==
  /\ \A t \in 1..Len(listeners) :
       listeners[t].ended_by # "None" => listeners[t].delays # << >>
  /\ is_connected =>
       \E t \in 1..Len(listeners) : listeners[t].pc \in {"listen", "dispatch"}

\* C10: when a reconnect loop that made an attempt returns with the
\* transport connected, a subscription frame covering every held
\* subscription has been sent successfully on the current connection.
C10_ResubscribedWhenConnected ==
  [][ \A t \in 1..Len(listeners) :
        (/\ listeners[t].pc \in {"connect", "send"}
         /\ Returned(listeners'[t])
         /\ is_connected'
         /\ subscriptions' # {})
          => \E f \in frames' : /\ f.websocket = websocket'
                                /\ subscriptions' \subseteq f.instruments ]_vars

(***************************************************************************)
(* Claims about the emergency-stop audit record                            *)
(***************************************************************************)
\* the strategies that are simulating or live
ActiveOrLive(st) ==
  { s \in StrategyIds : st[s].is_simulation_active \/ st[s].is_live_mode }

\* C11: the affected-strategies list that emergency_stop builds has exactly
\* as many entries as there were strategies simulating or live when the
\* stop was applied; strategies that were neither are not listed.
C11_AffectedCountsActive ==
  [][ (estop.pc = "idle" /\ estop'.pc = "log") =>
        Len(estop'.affected_strategies) = Cardinality(ActiveOrLive(strat)) ]_vars

\* C12: every invocation of emergency_stop leaves an audit record, whether
\* the persistence sink accepts the write or raises: the step that ends the
\* await of create_emergency_stop_log adds one row to the audit log.
C12_AuditRecordAlways ==
  [][ (estop.pc = "log" /\ estop'.pc # "log") =>
        Len(emergency_log') = Len(emergency_log) + 1 ]_vars

(***************************************************************************)
(* Claims about tick dispatch                                              *)
(***************************************************************************)
\* C15: ticks are dispatched one at a time: while the dispatch of a tick
\* (bar update, callbacks, strategy evaluation) is in progress, no other
\* tick for the same symbol is applied.
C15_OneDispatchAtATime ==
  \A t, u \in 1..Len(listeners) :
    (/\ listeners[t].pc = "dispatch"
     /\ listeners[u].pc = "dispatch"
     /\ listeners[t].tick = listeners[u].tick) => t = u

(***************************************************************************)
(* Claims about the halted engine                                          *)
(***************************************************************************)
\* C13: once set, the stop flag is cleared only by the step in which start()
\* is entered on an engine that is not running; and a tick whose test of
\* the flag finds it set is routed to no strategy: its dispatch ends and no
\* strategy changes.
C13_HaltedUntilStart ==
  [][ /\ (emergency_stopped /\ ~ emergency_stopped')
         => (~ is_running /\ is_running' /\ starting'.pc = "connect")
      /\ (dispatch.pc = "store_ohlcv" /\ dispatch' # dispatch /\ emergency_stopped)
         => (dispatch' = DispatchIdle /\ strat' = strat) ]_vars

\* emergency_stop has run to its end on a running engine, and a tick is
\* waiting at the await before its test of the flag
C13_Witness ==
  /\ emergency_stopped
  /\ is_running
  /\ estop.calls > 0
  /\ estop.pc = "idle"
  /\ dispatch.pc = "store_ohlcv"

(***************************************************************************)
(* Claims about promotion to live mode                                     *)
(***************************************************************************)
\* C14: a strategy's live flag becomes true only in a step in which
\* validate_for_live_mode passes for it; and a request to enable live mode
\* for a strategy that fails the validation is answered with an error that
\* carries the criteria, and leaves the strategy, its live and simulation
\* flags included, unchanged.
C14_LiveOnlyAfterValidation ==
  [][ \A s \in StrategyIds :
        /\ (~ strat[s].is_live_mode /\ strat'[s].is_live_mode)
             => validate_for_live_mode(strat[s]).passed
        /\ (/\ response' # response
            /\ response'.strategy = s
            /\ response'.enable
            /\ ~ validate_for_live_mode(strat[s]).passed)
             => /\ strat'[s] = strat[s]
                /\ response'.status # 200
                /\ response'.rejected
                /\ response'.criteria = validate_for_live_mode(strat[s]).criteria
    ]_vars

\* a simulating strategy whose track record passes has been promoted
C14_Witness ==
  \E s \in StrategyIds :
    /\ response.status = 200
    /\ response.strategy = s
    /\ response.enable
    /\ strat[s].is_live_mode
    /\ strat[s].is_simulation_active
    /\ strat[s].virtual_trade_count >= 10

(***************************************************************************)
(* Claims about mutual exclusion with tick dispatch                        *)
(***************************************************************************)
\* C16: emergency_stop does not take effect between the start and the end
\* of one tick's pass through _process_strategies: whenever the pass goes
\* on to evaluate a strategy and that strategy produces a signal, the stop
\* flag is not set and the strategy is still simulating.
C16_NoStopInsideDispatch ==
  [][ (/\ dispatch.pc \in {"create_signal", "create_trade"}
       /\ dispatch'.pc = "create_signal"
       /\ dispatch' # dispatch)
        => (/\ ~ emergency_stopped
            /\ strat[dispatch'.strategy].is_simulation_active) ]_vars

(***************************************************************************)
(* Claims about the entry rules                                            *)
(***************************************************************************)
\* strategy s opens a position on symbol y in this step
Opens(s, y) ==
  /\ Len(strat'[s].virtual_positions) = Len(strat[s].virtual_positions) + 1
  /\ strat'[s].virtual_positions[Len(strat'[s].virtual_positions)].symbol = y

\* C17: can_enter_trade(symbol) is false while fewer than 1800 seconds have
\* elapsed since the strategy's last successful entry on that symbol: in
\* particular it is false at the moment the entry has just been made.
C17_CooldownFromEntry ==
  [][ \A s \in StrategyIds, y \in Symbols :
        Opens(s, y) => ~ can_enter_trade(strat'[s], y, now') ]_vars

\* the magnitude of the cumulative P&L exceeds max_daily_loss
LossLimitExceeded(st) == 100 * Abs(st.virtual_pnl) > max_daily_loss_x100

\* C18: can_enter_trade is false in every state where the magnitude of the
\* strategy's cumulative P&L exceeds max_daily_loss, and no step opens a
\* position for a strategy whose P&L exceeds it.
C18_NoEntryPastLossLimit ==
  /\ [](\A s \in StrategyIds, y \in Symbols :
          LossLimitExceeded(strat[s]) => ~ can_enter_trade(strat[s], y, now))
  /\ [][ \A s \in StrategyIds, y \in Symbols :
           Opens(s, y) => ~ LossLimitExceeded(strat[s]) ]_vars

\* a closed trade left the P&L past the limit, and the limit is the only
\* entry rule that rejects a signal on Nifty50 now
C18_Witness ==
  /\ LossLimitExceeded(strat[1])
  /\ OpenPositions(strat[1]) = {}
  /\ strat[1].last_trade_time["Nifty50"] # None
  /\ now - strat[1].last_trade_time["Nifty50"][1] >= reentry_cooldown
  /\ Len(strat[1].virtual_positions) < MaxPositions

\* the signals a caller can hand to execute_virtual_trade now
SignalsNow == { MakeSignal(1, y, tt, now) : y \in Symbols, tt \in TradeTypes }

\* C19: when the entry rules reject a signal, execute_virtual_trade returns
\* no position and leaves the strategy (positions, last_trade_time, P&L,
\* trade count) as it was; and last_trade_time of a symbol changes only in
\* a step that opens a position on that symbol.
C19_RejectionChangesNothing ==
  /\ [](\A signal \in SignalsNow :
          ~ can_enter_trade(strat[1], signal.symbol, now)
            => /\ ~ Accepts(strat[1], signal, now)
               /\ execute_virtual_trade(strat[1], signal, now) = strat[1])
  /\ [][ \A s \in StrategyIds, y \in Symbols :
           strat'[s].last_trade_time[y] # strat[s].last_trade_time[y]
             => Opens(s, y) ]_vars

\* a signal on a symbol whose last entry was at an earlier time is rejected
\* now
C19_Witness ==
  \E signal \in SignalsNow :
    /\ ~ can_enter_trade(strat[1], signal.symbol, now)
    /\ strat[1].last_trade_time[signal.symbol] # None
    /\ strat[1].last_trade_time[signal.symbol] # Some(now)
    /\ Len(strat[1].virtual_positions) < MaxPositions

(***************************************************************************)
(* DhanHQWebSocketClient: bars built from ticks, for one symbol            *)
(***************************************************************************)
\* _should_create_new_bar with a strict comparison of the elapsed time
_should_create_new_bar_strict(last_timestamp, current_timestamp, timeframe) ==
  LET time_diff == current_timestamp - last_timestamp
  IN IF timeframe = "1min" THEN time_diff > 60
     ELSE IF timeframe = "5min" THEN time_diff > 300
     ELSE IF timeframe = "15min" THEN time_diff > 900
     ELSE IF timeframe = "daily"
          THEN current_timestamp \div 86400 # last_timestamp \div 86400
     ELSE FALSE

\* DhanHQWebSocketClient._should_create_new_bar
_should_create_new_bar(last_timestamp, current_timestamp, timeframe) ==
  LET time_diff == current_timestamp - last_timestamp
  IN IF timeframe = "1min" THEN time_diff >= 60
     ELSE IF timeframe = "5min" THEN time_diff >= 300
     ELSE IF timeframe = "15min" THEN time_diff >= 900
     ELSE IF timeframe = "daily"
          THEN current_timestamp \div 86400 # last_timestamp \div 86400
     ELSE FALSE

\* the bar _update_ohlcv creates from a tick
NewBar(tick_data) ==
  [ open      |-> tick_data.ltp,
    high      |-> tick_data.high,
    low       |-> tick_data.low,
    close     |-> tick_data.ltp,
    volume    |-> tick_data.volume,
    timestamp |-> tick_data.timestamp ]

\* the body of the loop of _update_ohlcv with the volume of the bar replaced
\* by the tick's
update_bar_last_volume(current, tick_data, tf) ==
  IF current = None THEN Some(NewBar(tick_data))
  ELSE IF _should_create_new_bar(current[1].timestamp, tick_data.timestamp, tf)
       THEN Some(NewBar(tick_data))
       ELSE Some([current[1] EXCEPT
                    !.high = Max(@, tick_data.high),
                    !.low = Min(@, tick_data.low),
                    !.close = tick_data.ltp,
                    !.volume = tick_data.volume])

\* the body of the loop of _update_ohlcv for one timeframe: the bar of the
\* timeframe after the tick
update_bar(current, tick_data, tf) ==
  IF current = None THEN Some(NewBar(tick_data))
  ELSE IF _should_create_new_bar(current[1].timestamp, tick_data.timestamp, tf)
       THEN Some(NewBar(tick_data))
       ELSE Some([current[1] EXCEPT
                    !.high = Max(@, tick_data.high),
                    !.low = Min(@, tick_data.low),
                    !.close = tick_data.ltp,
                    !.volume = @ + tick_data.volume])

\* DhanHQWebSocketClient._update_ohlcv: the bars of the tick's symbol are
\* updated, timeframe by timeframe
_update_ohlcv(data, symbol, tick_data) ==
  [data EXCEPT ![symbol] =
     [tf \in Timeframes |-> update_bar(data[symbol][tf], tick_data, tf)]]

\* _process_market_data up to its await, for a frame that arrives gap
\* seconds after the previous one: tick_info is built with the time of
\* arrival and the bars are updated
ProcessFrame(symbol, ltp, volume, high, low, gap) ==
  LET timestamp == IF tick_log = << >> THEN now ELSE now + gap
      tick_info == [symbol |-> symbol, ltp |-> ltp, volume |-> volume,
                    high |-> high, low |-> low, timestamp |-> timestamp]
  IN /\ now' = timestamp
     /\ ohlcv_data' = _update_ohlcv(ohlcv_data, symbol, tick_info)
     /\ tick_log' = Append(tick_log, tick_info)
     /\ UNCHANGED <<engineVars, websocket, is_connected, subscriptions,
                    listeners, owner, frames>>

\* frames of one symbol with any price, High, Low and volume
ProcessMarketData ==
  \E ltp \in FrameLtps, volume \in FrameVolumes, gap \in FrameGaps :
    \E high \in FrameHighs(ltp), low \in FrameLows(ltp) :
      /\ Len(tick_log) < MaxBarTicks
      /\ ProcessFrame("Nifty50", ltp, volume, high, low, gap)
      /\ UNCHANGED <<strat, price_data, pvaVars, frameVars, hubVars, callVars, taskVars, joinVars>>

\* frames of any symbol, without High and Low, at the gaps that make bars
\* roll over
ProcessMarketDataTimed ==
  \E symbol \in Symbols, gap \in RollGaps :
    /\ Len(tick_log) < MaxRollTicks
    /\ ProcessFrame(symbol, 100, 10, 100, 100, gap)
    /\ UNCHANGED <<strat, price_data, pvaVars, frameVars, hubVars, callVars, taskVars, joinVars>>

BarInit ==
  /\ strat = [s \in StrategyIds |-> NewStrategy(FALSE, FALSE)]
  /\ now = ClockStart
  /\ EngineInit
  /\ FeedInit

BarNext == ProcessMarketData

BarSpec == BarInit /\ [][BarNext]_vars

RollNext == ProcessMarketDataTimed

RollSpec == BarInit /\ [][RollNext]_vars

(***************************************************************************)
(* Claims about bar aggregation                                            *)
(***************************************************************************)
\* the length in seconds of a bar of a fixed-duration timeframe
Duration(tf) ==
  IF tf = "1min" THEN 60 ELSE IF tf = "5min" THEN 300 ELSE 900

\* the index in the log of the tick that opened the current bar of the
\* timeframe: a tick opens a bar when it comes a bar's length or more after
\* the tick that opened the previous one
RECURSIVE BarStart(_, _, _, _)
BarStart(log, tf, start, i) ==
  IF i > Len(log) THEN start
  ELSE IF log[i].timestamp - log[start].timestamp >= Duration(tf)
       THEN BarStart(log, tf, i, i + 1)
       ELSE BarStart(log, tf, start, i + 1)

\* the ticks of a symbol in the log, in order
TicksOf(log, y) == LET OfSymbol(t) == t.symbol = y IN SelectSeq(log, OfSymbol)

\* the ticks of the symbol that fall within the current bar of the
\* timeframe
InBar(log, y, tf) ==
  LET of_symbol == TicksOf(log, y)
  IN SubSeq(of_symbol, BarStart(of_symbol, tf, 1, 2), Len(of_symbol))

RECURSIVE SumVolume(_)
SumVolume(in_bar) ==
  IF in_bar = << >> THEN 0 ELSE Head(in_bar).volume + SumVolume(Tail(in_bar))

\* C20: for the ticks that fall within one bar of a fixed-duration
\* timeframe, the bar's high is the maximum of the ticks' highs, its low the
\* minimum of their lows, its close the last tick's price and its volume the
\* sum of their volumes.
C20_BarAggregatesTicks ==
  \A y \in Symbols, tf \in FixedTimeframes :
    TicksOf(tick_log, y) # << >> =>
      LET in_bar == InBar(tick_log, y, tf)
          bar == ohlcv_data[y][tf][1]
      IN /\ \E i \in 1..Len(in_bar) : bar.high = in_bar[i].high
         /\ \A i \in 1..Len(in_bar) : bar.high >= in_bar[i].high
         /\ \E i \in 1..Len(in_bar) : bar.low = in_bar[i].low
         /\ \A i \in 1..Len(in_bar) : bar.low <= in_bar[i].low
         /\ bar.close = in_bar[Len(in_bar)].ltp
         /\ bar.volume = SumVolume(in_bar)

\* the 5-minute bar holds several ticks with different highs, lows and
\* volumes, after the 1-minute bar was replaced by a new one
C20_Witness ==
  LET in_bar == InBar(tick_log, "Nifty50", "5min")
  IN /\ Len(in_bar) >= 3
     /\ Len(InBar(tick_log, "Nifty50", "1min")) < Len(in_bar)
     /\ \E i, j \in 1..Len(in_bar) :
          /\ in_bar[i].high # in_bar[j].high
          /\ in_bar[i].low # in_bar[j].low
          /\ in_bar[i].volume # in_bar[j].volume
          /\ in_bar[Len(in_bar)].high < in_bar[i].high

\* a bar that started at time start is due to be replaced at time t
BarIsOver(tf, start, t) ==
  IF tf \in FixedTimeframes THEN t - start >= Duration(tf)
  ELSE t \div 86400 # start \div 86400

\* C21: a tick opens a new bar of a timeframe iff the time since the open
\* bar's start is at least the timeframe's duration (fixed duration) or the
\* tick's date differs from the bar's start date (daily), and otherwise
\* updates the open bar; after the tick its symbol has one open bar per
\* timeframe, and the bars of the other symbols are as they were.
C21_BarRollsWhenDue ==
  [][ tick_log' # tick_log =>
        LET tick == tick_log'[Len(tick_log')]
        IN /\ \A tf \in Timeframes :
                LET old == ohlcv_data[tick.symbol][tf]
                    new == ohlcv_data'[tick.symbol][tf]
                IN /\ new # None
                   /\ old # None =>
                        IF BarIsOver(tf, old[1].timestamp, tick.timestamp)
                        THEN new[1] = NewBar(tick)
                        ELSE /\ new[1].timestamp = old[1].timestamp
                             /\ new[1].open = old[1].open
                             /\ new[1].close = tick.ltp
           /\ \A y \in Symbols \ {tick.symbol} :
                ohlcv_data'[y] = ohlcv_data[y] ]_vars

\* a symbol whose 15-minute, 5-minute and 1-minute bars started at
\* different ticks, next to another symbol with older bars
C21_Witness ==
  \E y, z \in Symbols :
    /\ y # z
    /\ ohlcv_data[y]["15min"] # None
    /\ ohlcv_data[z]["1min"] # None
    /\ ohlcv_data[y]["15min"][1].timestamp > ohlcv_data[y]["daily"][1].timestamp
    /\ ohlcv_data[y]["15min"][1].timestamp
         = ohlcv_data[y]["daily"][1].timestamp + 900
    /\ ohlcv_data[z]["1min"][1].timestamp < ohlcv_data[y]["15min"][1].timestamp

(***************************************************************************)
(* PVAStrategy: signals from an indicator snapshot                         *)
(***************************************************************************)
\* thresholds of PVAStrategy.__init__: volume_breakout_threshold is 1.5
\* (3/2), vroc_breakout_threshold 2.0 (times 100 where it is used)
volume_breakout_threshold_x2 == 3
vroc_breakout_threshold_x100 == 200

\* the last ten values of an OBV array: rising, falling, flat
ObvArrays ==
  { [i \in 1..10 |-> 10 * i], [i \in 1..10 |-> 110 - 10 * i],
    [i \in 1..10 |-> 50] }

\* the snapshots analyze_market_data hands over: the price and volume of
\* the tick (0 when the frame has none), the last values of the VROC, VWAP
\* and 20-period average volume arrays, the levels, the OBV array
Snapshots ==
  { [current_price |-> p, current_volume |-> v, obv |-> o, vroc |-> c,
     vwap |-> w, avg_volume_20 |-> 200, poc |-> k, resistance |-> r,
     support |-> u] :
      p \in {0, 100}, v \in {0, 200, 300, 301}, o \in ObvArrays,
      c \in {200, 201}, w \in {99, 100, 101}, k \in {99, 100, 101},
      r \in {99, 100}, u \in {100, 101} }

RECURSIVE SumSeq(_)
SumSeq(seq) == IF seq = << >> THEN 0 ELSE Head(seq) + SumSeq(Tail(seq))

\* obv > np.mean(obv_array[-10:-5]), for an array of ten or more values
AboveRecentObv(obv, obv_array) ==
  LET n == Len(obv_array)
  IN 5 * obv > SumSeq(SubSeq(obv_array, n - 9, n - 5))

BelowRecentObv(obv, obv_array) ==
  LET n == Len(obv_array)
  IN 5 * obv < SumSeq(SubSeq(obv_array, n - 9, n - 5))

\* _check_long_conditions without the test of the price against VWAP
_check_long_conditions_without_vwap(price, volume, obv, vroc, vwap, avg_vol, resistance, poc, obv_array) ==
  /\ price > resistance
  /\ 2 * volume > avg_vol * volume_breakout_threshold_x2
  /\ (Len(obv_array) >= 10 => AboveRecentObv(obv, obv_array))
  /\ price > poc
  /\ vroc > vroc_breakout_threshold_x100
  /\ volume > avg_vol

\* PVAStrategy._check_long_conditions: conditions["all_met"]
_check_long_conditions(price, volume, obv, vroc, vwap, avg_vol, resistance, poc, obv_array) ==
  /\ price > resistance
  /\ 2 * volume > avg_vol * volume_breakout_threshold_x2
  /\ (Len(obv_array) >= 10 => AboveRecentObv(obv, obv_array))
  /\ price > poc
  /\ vroc > vroc_breakout_threshold_x100
  /\ price > vwap
  /\ volume > avg_vol

\* PVAStrategy._check_short_conditions: conditions["all_met"]
_check_short_conditions(price, volume, obv, vroc, vwap, avg_vol, support, poc, obv_array) ==
  /\ price < support
  /\ 2 * volume > avg_vol * volume_breakout_threshold_x2
  /\ (Len(obv_array) >= 10 => BelowRecentObv(obv, obv_array))
  /\ price < poc
  /\ vroc > vroc_breakout_threshold_x100
  /\ price < vwap
  /\ volume > avg_vol

\* what generate_signals returns when it returns None
NoGenerated == [signal_type |-> "None", symbol |-> "None",
                signal_strength |-> 0, price |-> 0]

\* PVAStrategy.generate_signals: the Signal it returns, on the first
\* instrument of the strategy
generate_signals(snapshot) ==
  IF snapshot = None THEN NoGenerated
  ELSE LET ind == snapshot[1]
           current_obv == ind.obv[Len(ind.obv)]
       IN IF ind.current_price = 0 \/ ind.current_volume = 0 THEN NoGenerated
          ELSE IF _check_long_conditions(ind.current_price, ind.current_volume,
                     current_obv, ind.vroc, ind.vwap, ind.avg_volume_20,
                     ind.resistance, ind.poc, ind.obv)
          THEN [signal_type |-> "LONG", symbol |-> "Nifty50",
                signal_strength |-> ind.vroc, price |-> ind.current_price]
          ELSE IF _check_short_conditions(ind.current_price, ind.current_volume,
                     current_obv, ind.vroc, ind.vwap, ind.avg_volume_20,
                     ind.support, ind.poc, ind.obv)
          THEN [signal_type |-> "SHORT", symbol |-> "Nifty50",
                signal_strength |-> ind.vroc, price |-> ind.current_price]
          ELSE NoGenerated

\* a call of generate_signals
GenerateSignals ==
  /\ generated = << >>
  /\ generated' = <<generate_signals(indicators)>>
  /\ UNCHANGED <<stratVars, engineVars, websocket, is_connected, subscriptions,
                 listeners, owner, frames, ohlcv_data, tick_log, price_data,
                 indicators, frameVars, hubVars, callVars, taskVars, joinVars>>

\* a strategy about to be asked for a signal on any snapshot, the empty one
\* included
SignalInit ==
  /\ strat = [s \in StrategyIds |-> NewStrategy(s = 1, FALSE)]
  /\ now = ClockStart
  /\ EngineInit
  /\ ClientInit
  /\ price_data = NewPriceData
  /\ indicators \in {None} \cup { Some(x) : x \in Snapshots }
  /\ generated = << >>

SignalNext == GenerateSignals

SignalSpec == SignalInit /\ [][SignalNext]_vars

(***************************************************************************)
(* PVAStrategy: the data points kept for the indicators                    *)
(***************************************************************************)
\* the capacity of a timeframe's lists in _update_price_data
max_length == 1000
\* the data points analyze_market_data needs before it computes indicators:
\* max(avg_volume_long, vwap_period)
avg_volume_long == 50
vwap_period == 20

\* the last n elements of a sequence: seq[-n:]
LastN(seq, n) ==
  IF Len(seq) <= n THEN seq ELSE SubSeq(seq, Len(seq) - n + 1, Len(seq))

\* the timeframe analyze_market_data reads from market_data: tick_info has
\* no key "timeframe"
TimeframeOf(market_data) == "1min"

\* PVAStrategy._update_price_data at wall-clock time t
_update_price_data(data, market_data, timeframe, t) ==
  IF timeframe \notin Timeframes THEN data
  ELSE [data EXCEPT ![timeframe] =
          LastN(Append(@, [high      |-> market_data.high,
                           low       |-> market_data.low,
                           close     |-> market_data.ltp,
                           volume    |-> market_data.volume,
                           timestamp |-> t]),
                max_length)]

\* seconds between two frames handed on to a strategy: within a 1-minute
\* bar, and past a 5-minute one
HistoryGaps == {59, 600}

\* the test of analyze_market_data satisfied with one data point fewer
TooFewPoints_one_fewer(data, timeframe) ==
  Len(data[timeframe]) < Max(avg_volume_long, vwap_period) - 1

\* analyze_market_data finds too few data points for the indicators
TooFewPoints(data, timeframe) ==
  Len(data[timeframe]) < Max(avg_volume_long, vwap_period)

\* the snapshots analyze_market_data can return for a tick once there are
\* enough data points: the price and volume are the tick's, the VROC is
\* below or above the breakout threshold, the other indicators favour a
\* LONG entry
AnalysedSnapshots(market_data) ==
  { x \in Snapshots :
      /\ x.current_price = market_data.ltp
      /\ x.current_volume = market_data.volume
      /\ x.obv = [i \in 1..10 |-> 10 * i]
      /\ x.vwap = 99 /\ x.poc = 99 /\ x.resistance = 99 /\ x.support = 100 }

\* PVAStrategy.analyze_market_data after _update_price_data: the snapshots
\* it can return (None for the empty one)
analyze_market_data(data, market_data, timeframe) ==
  IF TooFewPoints(data, timeframe) THEN {None}
  ELSE { Some(x) : x \in AnalysedSnapshots(market_data) }

\* a frame processed by the listener and handed on, through the market_data
\* callback and the engine's dispatch, to a simulating PVA strategy, with
\* the persistence sink answering every call: analyze_market_data records
\* the tick with _update_price_data; on an empty snapshot the dispatch goes
\* on to the next strategy, otherwise positions are updated, a signal is
\* generated and an accepted signal opens a position. The listener awaits
\* the callback, so frames are handled one after another.
ProcessMarketDataAnalysed ==
  \E symbol \in Symbols, gap \in HistoryGaps :
    /\ Len(tick_log) < MaxHistoryTicks
    /\ ProcessFrame(symbol, 100, 301, 100, 100, gap)
    /\ UNCHANGED <<frameVars, hubVars, callVars, taskVars, joinVars>>
    /\ LET tick_info == tick_log'[Len(tick_log')]
           timeframe == TimeframeOf(tick_info)
           data == _update_price_data(price_data, tick_info, timeframe, now')
       IN /\ price_data' = data
          /\ \E snapshot \in analyze_market_data(data, tick_info, timeframe) :
               LET signal == generate_signals(snapshot)
                   st1 == update_positions(strat[1],
                            [symbol |-> tick_info.symbol, ltp |-> tick_info.ltp,
                             volume |-> tick_info.volume, avg_volume |-> None],
                            now')
               IN /\ indicators' = snapshot
                  /\ generated' = <<signal>>
                  /\ strat' =
                       IF snapshot = None THEN strat
                       ELSE IF signal.signal_type = "None"
                            THEN [strat EXCEPT ![1] = st1]
                            ELSE [strat EXCEPT ![1] =
                                    execute_virtual_trade(st1,
                                      MakeSignal(1, signal.symbol,
                                                 signal.signal_type, now'),
                                      now')]

\* the data points a strategy holds after n earlier ticks, one a second
EarlierPoints(n) ==
  [i \in 1..n |-> [high |-> 100, low |-> 100, close |-> 100, volume |-> 10,
                   timestamp |-> ClockStart - (n - i + 1)]]

\* the numbers of earlier ticks a run starts with: none, two short of the
\* points the indicators need, one short of the capacity
HistoryStarts == {0, Max(avg_volume_long, vwap_period) - 2, max_length - 1}

HistoryInit ==
  /\ strat = [s \in StrategyIds |-> NewStrategy(s = 1, FALSE)]
  /\ now = ClockStart
  /\ EngineInit
  /\ ClientInit
  /\ indicators = None
  /\ generated = << >>
  /\ \E n \in HistoryStarts :
       price_data = [NewPriceData EXCEPT !["1min"] = EarlierPoints(n)]

HistoryNext == ProcessMarketDataAnalysed

HistorySpec == HistoryInit /\ [][HistoryNext]_vars

(***************************************************************************)
(* Claims about the retained history                                       *)
(***************************************************************************)
\* the data point that retains a bar
RetainedAs(bar, point) ==
  /\ point.high = bar.high
  /\ point.low = bar.low
  /\ point.close = bar.close
  /\ point.volume = bar.volume

\* C22: when a tick opens a new bar of a symbol and timeframe, the bar it
\* replaces is retained in the history kept for that timeframe, and the
\* history of a timeframe never holds more than max_length entries.
C22_PreviousBarRetained ==
  /\ [](\A tf \in Timeframes : Len(price_data[tf]) <= max_length)
  /\ [][ \A y \in Symbols, tf \in Timeframes :
           (/\ ohlcv_data[y][tf] # None
            /\ ohlcv_data'[y][tf] # ohlcv_data[y][tf]
            /\ ohlcv_data'[y][tf][1].timestamp # ohlcv_data[y][tf][1].timestamp)
             => \E i \in 1..Len(price_data'[tf]) :
                  RetainedAs(ohlcv_data[y][tf][1], price_data'[tf][i]) ]_vars

(***************************************************************************)
(* Claims about the end-of-day cutoff                                      *)
(***************************************************************************)
\* the wall-clock time is at or past the cutoff of the day
AfterCutoff(t) == 60 * Hour(t) + Minute(t) >= 60 * eod_hour + eod_minute

\* C23: when a periodic-maintenance run that happens past the end-of-day
\* cutoff finishes, no position of any registered strategy is OPEN.
C23_FlatAfterEodRun ==
  [][ (/\ periodic.pc = "update_trade"
       /\ periodic'.pc # "update_trade"
       /\ AfterCutoff(now))
        => \A s \in StrategyIds : OpenPositions(strat'[s]) = {} ]_vars

(***************************************************************************)
(* A strategy holding one open position, checked by a tick at a given      *)
(* time of day                                                             *)
(***************************************************************************)
\* the times of day of the per-tick check: 15:14, 15:15, 15:59, 16:05, 16:15
CheckTimes ==
  { 15 * 3600 + 14 * 60, 15 * 3600 + 15 * 60, 15 * 3600 + 59 * 60,
    16 * 3600 + 5 * 60, 16 * 3600 + 15 * 60 }

\* strategy 1 opened one position, on any symbol and in any direction, when
\* the cooldown before the time of the check began
CutoffInit ==
  /\ now \in CheckTimes
  /\ \E y \in Symbols, tt \in TradeTypes :
       strat = [s \in StrategyIds |->
                  IF s = 1
                  THEN execute_virtual_trade(NewStrategy(TRUE, FALSE),
                         MakeSignal(1, y, tt, now - reentry_cooldown),
                         now - reentry_cooldown)
                  ELSE NewStrategy(FALSE, FALSE)]
  /\ EngineInit
  /\ FeedInit

CutoffNext == RiskUpdate \/ RiskExecute

CutoffSpec == CutoffInit /\ [][CutoffNext]_vars

\* C24: a per-tick check made on an open position at or after the cutoff
\* closes that position: update_positions with a tick of the position's
\* symbol leaves it CLOSED.
C24_TickAfterCutoffCloses ==
  AfterCutoff(now) =>
    \A md \in MarketData, i \in OpenPositions(strat[1]) :
      strat[1].virtual_positions[i].symbol = md.symbol
        => update_positions(strat[1], md, now).virtual_positions[i].status
             = "CLOSED"

(***************************************************************************)
(* Claims about closed positions                                           *)
(***************************************************************************)
\* C25: in every reachable state and for every position, pnl is set if and
\* only if the status of the position is CLOSED.
C25_PnlIffClosed ==
  \A s \in StrategyIds :
    \A i \in 1..Len(strat[s].virtual_positions) :
      LET position == strat[s].virtual_positions[i]
      IN (position.pnl # None) <=> (position.status = "CLOSED")

\* one strategy holds a closed position with its pnl while a position is
\* still open
C25_Witness ==
  /\ \E s \in StrategyIds :
       \E i \in 1..Len(strat[s].virtual_positions) :
         /\ strat[s].virtual_positions[i].status = "CLOSED"
         /\ strat[s].virtual_positions[i].pnl # None
  /\ \E s \in StrategyIds : OpenPositions(strat[s]) # {}

Sign(n) == IF n > 0 THEN 1 ELSE IF n < 0 THEN 0 - 1 ELSE 0
Direction(trade_type) == IF trade_type = "LONG" THEN 1 ELSE 0 - 1

\* C26: for every closed position pnl is direction x (exit_price -
\* entry_price) x quantity with a positive quantity, so its sign is that of
\* direction x (exit_price - entry_price) and it is zero exactly when
\* exit_price equals entry_price.
C26_PnlSignFollowsDirection ==
  \A i \in 1..Len(strat[1].virtual_positions) :
    LET position == strat[1].virtual_positions[i]
    IN position.status = "CLOSED" =>
         LET move == position.exit_price[1] - position.entry_price
         IN /\ position.quantity > 0
            /\ position.pnl[1]
                 = Direction(position.trade_type) * move * position.quantity
            /\ Sign(position.pnl[1])
                 = Direction(position.trade_type) * Sign(move)
            /\ (position.pnl[1] = 0) <=> (move = 0)

\* a LONG and a SHORT position closed at the same price, above their
\* entry: one with a profit, the other with a loss
C26_Witness ==
  \E i, j \in 1..Len(strat[1].virtual_positions) :
    LET p == strat[1].virtual_positions[i]
        q == strat[1].virtual_positions[j]
    IN /\ p.status = "CLOSED" /\ p.trade_type = "LONG" /\ p.pnl[1] > 0
       /\ q.status = "CLOSED" /\ q.trade_type = "SHORT" /\ q.pnl[1] < 0
       /\ p.exit_price = q.exit_price

(***************************************************************************)
(* Claims about the signals                                                *)
(***************************************************************************)
\* the seven long conditions on a snapshot
SevenLongConditions(ind) ==
  /\ ind.current_price > ind.resistance
  /\ 2 * ind.current_volume > 3 * ind.avg_volume_20
  /\ 5 * ind.obv[Len(ind.obv)]
       > SumSeq(SubSeq(ind.obv, Len(ind.obv) - 9, Len(ind.obv) - 5))
  /\ ind.current_price > ind.poc
  /\ ind.vroc > 200
  /\ ind.current_price > ind.vwap
  /\ ind.current_volume > ind.avg_volume_20

\* C27: for a non-empty snapshot generate_signals returns a LONG signal if
\* and only if the seven long conditions hold together.
C27_LongIffSevenConditions ==
  (generated # << >> /\ indicators # None) =>
    ((generated[1].signal_type = "LONG") <=> SevenLongConditions(indicators[1]))

\* a LONG signal was returned
C27_Witness ==
  /\ generated # << >>
  /\ generated[1].signal_type = "LONG"
  /\ indicators # None
  /\ SevenLongConditions(indicators[1])


\* C28: while the history of the evaluated timeframe holds fewer than 50
\* entries, analyze_market_data returns the empty snapshot, generate_signals
\* returns none for it, and the dispatch of the tick opens no position and
\* changes no strategy.
C28_ShortHistoryNoDecision ==
  [][ (/\ tick_log' # tick_log
       /\ Len(price_data'[TimeframeOf(tick_log'[Len(tick_log')])]) < 50)
        => /\ indicators' = None
           /\ generated' = <<NoGenerated>>
           /\ generate_signals(None) = NoGenerated
           /\ strat' = strat ]_vars

\* a tick was dispatched with 49 data points in the history, after which
\* the history is long enough
C28_Witness ==
  /\ Len(tick_log) >= 2
  /\ Len(price_data["1min"]) >= 50
  /\ indicators # None
  /\ \E i \in 1..Len(price_data["1min"]) :
       /\ price_data["1min"][i].timestamp = tick_log[1].timestamp
       /\ i = 49


(***************************************************************************)
(* DhanHQWebSocketClient: the frames of one stream                         *)
(***************************************************************************)
\* the messages a stream delivers: text that is not JSON, JSON that is not
\* an object (a number, a list), an object without MessageCode, and objects
\* with a MessageCode (2: none the client knows, 4: market data, 5: index
\* data) for a symbol
Messages ==
  { [json |-> j, code |-> None, symbol |-> "None"] :
      j \in {"invalid", "number", "list", "object"} }
  \cup { [json |-> "object", code |-> Some(c), symbol |-> y] :
           c \in {2, 4, 5}, y \in Symbols }

\* json.loads: a decode error, or the kind of value decoded
json_loads(message) ==
  IF message.json = "invalid" THEN "JSONDecodeError" ELSE message.json

\* _process_message handling every MessageCode as market data
process_message_any_code(message) ==
  LET data == json_loads(message)
  IN IF data = "JSONDecodeError" THEN "decode_error"
     ELSE IF data = "number" THEN "exception"
     ELSE IF data = "list" THEN "ignored"
     ELSE IF message.code = None THEN "ignored"
     ELSE "market_data"

\* _process_message: what it does with a message. "MessageCode" in data
\* raises TypeError for a number, which the last except clause logs
process_message(message) ==
  LET data == json_loads(message)
  IN IF data = "JSONDecodeError" THEN "decode_error"
     ELSE IF data = "number" THEN "exception"
     ELSE IF data = "list" THEN "ignored"
     ELSE IF message.code = None THEN "ignored"
     ELSE IF message.code[1] = 4 THEN "market_data"
     ELSE IF message.code[1] = 5 THEN "index_data"
     ELSE "ignored"

\* one pass of the loop of _listen_messages: the stream delivers a message
\* and _process_message handles it, callbacks included
ProcessMessage ==
  \E message \in Messages, gap \in HistoryGaps :
    /\ Len(received) < MaxFrames
    /\ Len(listeners) = 1
    /\ listeners[1].pc = "listen"
    /\ received' = Append(received, message)
    /\ LET handled == process_message(message)
       IN IF handled = "market_data"
          THEN /\ ProcessFrame(message.symbol, 100, 10, 100, 100, gap)
               /\ notified' = Append(notified, <<"market_data", message.symbol>>)
               /\ UNCHANGED <<strat, price_data, pvaVars, hubVars, callVars, taskVars, joinVars>>
          ELSE /\ notified' = IF handled = "index_data"
                              THEN Append(notified, <<"index_data", message.symbol>>)
                              ELSE notified
               /\ UNCHANGED <<stratVars, engineVars, websocket, is_connected,
                              subscriptions, listeners, owner, frames,
                              ohlcv_data, tick_log, price_data, pvaVars,
                              hubVars, callVars, taskVars, joinVars>>

\* a connected client with its listener task
FrameInit ==
  /\ strat = [s \in StrategyIds |-> NewStrategy(FALSE, FALSE)]
  /\ now = ClockStart
  /\ EngineInit
  /\ websocket = 1
  /\ is_connected = TRUE
  /\ subscriptions = {}
  /\ listeners = <<NewListener(1)>>
  /\ owner = OwnerIdle
  /\ frames = {}
  /\ ohlcv_data = [y \in Symbols |-> [tf \in Timeframes |-> None]]
  /\ tick_log = << >>
  /\ received = << >>
  /\ notified = << >>
  /\ ManagerInit
  /\ price_data = NewPriceData
  /\ indicators = None
  /\ generated = << >>

FrameNext == ProcessMessage

FrameSpec == FrameInit /\ [][FrameNext]_vars

(***************************************************************************)
(* Claims about malformed frames                                           *)
(***************************************************************************)
\* a message that cannot be decoded, or carries no message code or one
\* other than 4 and 5
Malformed(message) ==
  \/ message.json # "object"
  \/ message.code = None
  \/ message.code[1] \notin {4, 5}

\* C29: a frame that cannot be decoded, or carries no message code or a
\* code other than 4 or 5, changes no bar and raises no callback, and the
\* listener goes on: a market-data frame that follows is processed.
C29_MalformedFrameDropped ==
  [][ received' # received =>
        LET message == received'[Len(received')]
        IN /\ listeners' = listeners
           /\ Malformed(message)
                => /\ ohlcv_data' = ohlcv_data
                   /\ tick_log' = tick_log
                   /\ notified' = notified
           /\ (~ Malformed(message) /\ message.code[1] = 4)
                => /\ Len(tick_log') = Len(tick_log) + 1
                   /\ ohlcv_data'[message.symbol]["1min"] # None
                   /\ notified'
                        = Append(notified, <<"market_data", message.symbol>>) ]_vars

\* frames of each malformed kind were followed by a market-data frame that
\* was processed
C29_Witness ==
  /\ Len(received) = 3
  /\ received[1].json = "invalid"
  /\ received[2].code = Some(2)
  /\ received[3].code = Some(4)
  /\ Len(tick_log) = 1
  /\ notified = <<<<"market_data", received[3].symbol>>>>


(***************************************************************************)
(* ConnectionManager: channels of front-end listeners                      *)
(***************************************************************************)
\* the websockets of the front end
Connections == 1..MaxListeners

\* the connection types an endpoint may name, one of them no channel
ConnectionTypes == Channels \cup {"orders"}

\* the events the manager broadcasts: _handle_market_data passes the tick
\* of the client, whose timestamp is a datetime, in data and in timestamp;
\* _handle_connection_status passes booleans, numbers and strings
Events ==
  { [type |-> "market_data", timestamp |-> "datetime"],
    [type |-> "system_status", timestamp |-> "None"] }

\* json.dumps: the text, or the TypeError it raises for a datetime
json_dumps(data) ==
  IF data.timestamp = "datetime" THEN "TypeError" ELSE "text"

\* the channel connect adds a websocket to
ChannelOf(connection_type) ==
  IF connection_type \notin Channels THEN "market_data" ELSE connection_type

\* connect: a new websocket joins a channel
Connect ==
  \E websocket_ \in Connections, connection_type \in ConnectionTypes :
    /\ \A c \in Channels : websocket_ \notin active_connections[c]
    /\ broadcast.pc = "sending" => websocket_ \notin broadcast.copy
    /\ active_connections' =
         [active_connections EXCEPT ![ChannelOf(connection_type)] = @ \cup {websocket_}]
    /\ UNCHANGED <<stratVars, engineVars, websocket, is_connected,
                   subscriptions, listeners, owner, frames, ohlcv_data,
                   tick_log, price_data, pvaVars, frameVars, broadcast, callVars, taskVars, joinVars>>

\* disconnect: the endpoint of a websocket takes it out of its channel
Disconnect ==
  \E websocket_ \in Connections, connection_type \in Channels :
    /\ websocket_ \in active_connections[connection_type]
    /\ active_connections' =
         [active_connections EXCEPT ![connection_type] = @ \ {websocket_}]
    /\ UNCHANGED <<stratVars, engineVars, websocket, is_connected,
                   subscriptions, listeners, owner, frames, ohlcv_data,
                   tick_log, price_data, pvaVars, frameVars, broadcast, callVars, taskVars, joinVars>>

\* broadcast_to_group up to its first send: the early return, json.dumps,
\* and the copy of the channel the loop iterates
BroadcastBegin ==
  \E connection_type \in ConnectionTypes, data \in Events :
    /\ broadcast.pc \in {"idle", "raised"}
    /\ broadcast' =
         IF connection_type \notin Channels
         THEN NoBroadcast
         ELSE IF json_dumps(data) = "TypeError"
         THEN [NoBroadcast EXCEPT !.pc = "raised",
                                  !.connection_type = connection_type]
         ELSE [NoBroadcast EXCEPT !.pc = "sending",
                                  !.connection_type = connection_type,
                                  !.copy = active_connections[connection_type]]
    /\ UNCHANGED <<stratVars, engineVars, websocket, is_connected,
                   subscriptions, listeners, owner, frames, ohlcv_data,
                   tick_log, price_data, pvaVars, frameVars,
                   active_connections, callVars, taskVars, joinVars>>

\* one pass of the loop: send_text to a listener of the copy returns or
\* raises
BroadcastSend ==
  \E connection \in broadcast.copy, ok \in BOOLEAN :
    /\ broadcast.pc = "sending"
    /\ connection \notin broadcast.sent \cup broadcast.disconnected_connections
    /\ broadcast' =
         IF ok
         THEN [broadcast EXCEPT !.sent = @ \cup {connection}]
         ELSE [broadcast EXCEPT !.disconnected_connections = @ \cup {connection}]
    /\ UNCHANGED <<stratVars, engineVars, websocket, is_connected,
                   subscriptions, listeners, owner, frames, ohlcv_data,
                   tick_log, price_data, pvaVars, frameVars,
                   active_connections, callVars, taskVars, joinVars>>

\* after the loop: the failed listeners are discarded and the call returns
BroadcastEnd ==
  /\ broadcast.pc = "sending"
  /\ broadcast.copy = broadcast.sent \cup broadcast.disconnected_connections
  /\ active_connections' =
       [active_connections EXCEPT ![broadcast.connection_type] =
          @ \ broadcast.disconnected_connections]
  /\ broadcast' = [broadcast EXCEPT !.pc = "idle"]
  /\ UNCHANGED <<stratVars, engineVars, websocket, is_connected,
                 subscriptions, listeners, owner, frames, ohlcv_data,
                 tick_log, price_data, pvaVars, frameVars, callVars, taskVars, joinVars>>

\* a manager, as constructed, next to an idle engine and client
HubInit ==
  /\ strat = [s \in StrategyIds |-> NewStrategy(FALSE, FALSE)]
  /\ now = ClockStart
  /\ EngineInit
  /\ FeedInit

HubNext ==
  \/ Connect
  \/ Disconnect
  \/ BroadcastBegin
  \/ BroadcastSend
  \/ BroadcastEnd

HubSpec == HubInit /\ [][HubNext]_vars

(***************************************************************************)
(* Claims about broadcasts                                                 *)
(***************************************************************************)
\* a step of broadcast_to_group
BroadcastStep == broadcast' # broadcast

\* a call of broadcast_to_group returns: the listeners of the channel whose
\* send failed are gone from it, the others got the message and stay, and
\* no other channel changed
HandlesFailedSends ==
  (broadcast.pc = "sending" /\ broadcast'.pc = "idle") =>
    LET ct == broadcast.connection_type
    IN /\ \A ws \in broadcast.disconnected_connections :
            ws \notin active_connections'[ct]
       /\ \A ws \in broadcast.copy \ broadcast.disconnected_connections :
            /\ ws \in broadcast.sent
            /\ ws \in active_connections[ct] => ws \in active_connections'[ct]
       /\ \A c \in Channels \ {ct} :
            active_connections'[c] = active_connections[c]

\* a broadcast of data json.dumps renders returns having discarded the
\* listeners whose send failed and only those
BroadcastOfTextHandlesFailedSends ==
  [][BroadcastStep => HandlesFailedSends]_vars

\* a broadcast with a failed and a served listener returned, another channel
\* has a listener
BroadcastOfTextReturned ==
  /\ broadcast.pc = "idle"
  /\ broadcast.sent # {}
  /\ broadcast.disconnected_connections # {}
  /\ active_connections[broadcast.connection_type] = broadcast.sent
  /\ \E c \in Channels \ {broadcast.connection_type} :
       active_connections[c] # {}

\* C30: in a broadcast to a channel, every listener whose send fails is
\* removed from that channel, every other listener of the channel receives
\* the message and remains subscribed, the listeners of other channels are
\* untouched, and the broadcast itself does not fail.
C30_BroadcastDropsOnlyFailed ==
  [][ BroadcastStep =>
        /\ broadcast'.pc # "raised"
        /\ HandlesFailedSends ]_vars


(***************************************************************************)
(* PVAStrategy: the exit escalation                                        *)
(***************************************************************************)
\* thresholds of PVAStrategy.__init__: volume_climax_threshold is 3.0
\* (times 100 where it is used), atr_multiplier 2.0
volume_climax_threshold_x100 == 300
atr_multiplier == 2

\* the volume of the tick a position was entered on
EntryVolumes == {100, 200}

\* the snapshot of the tick a position was entered on: generate_signals
\* puts it in the signal, execute_virtual_trade reads its atr only
EntrySnapshots ==
  { [current_price |-> 100, current_volume |-> v, atr |-> 2] :
      v \in EntryVolumes }

\* the snapshots check_exit_conditions is called with: the last values of
\* the VROC, ATR and 20-period average volume arrays and the volume of the
\* tick
ExitSnapshots ==
  { [vroc |-> c, atr |-> a, current_volume |-> v, avg_volume_20 |-> g] :
      c \in {300, 301}, a \in {2, 3}, v \in {79, 80, 159, 160},
      g \in {100, 200} }

\* the prices check_exit_conditions is called with
ExitPrices == {96, 100, 104}

\* the volume the low-volume rule compares with: getattr(position,
\* 'entry_volume', current_avg_vol), and a Position has no entry_volume
entry_volume(position, ind) == ind.avg_volume_20

\* the rules of check_exit_conditions
VolumeClimax(ind) == ind.vroc > volume_climax_threshold_x100

Target2Atr(position, current_price, ind) ==
  IF position.trade_type = "LONG"
  THEN current_price >= position.entry_price + atr_multiplier * ind.atr
  ELSE current_price <= position.entry_price - atr_multiplier * ind.atr

\* current_volume < entry_volume * 0.8
LowVolumeExit(position, ind) ==
  5 * ind.current_volume < 4 * entry_volume(position, ind)

NoExit == [should_exit |-> FALSE, exit_reason |-> "None"]

Exit(reason) == [should_exit |-> TRUE, exit_reason |-> reason]

\* check_exit_conditions testing the price target before the volume climax
check_exit_conditions_target_first(position, current_price, ind) ==
  IF Target2Atr(position, current_price, ind) THEN Exit("TARGET_2ATR")
  ELSE IF VolumeClimax(ind) THEN Exit("VOLUME_CLIMAX")
  ELSE IF LowVolumeExit(position, ind) THEN Exit("LOW_VOLUME")
  ELSE NoExit

\* PVAStrategy.check_exit_conditions
check_exit_conditions(position, current_price, ind) ==
  IF VolumeClimax(ind) THEN Exit("VOLUME_CLIMAX")
  ELSE IF Target2Atr(position, current_price, ind) THEN Exit("TARGET_2ATR")
  ELSE IF LowVolumeExit(position, ind) THEN Exit("LOW_VOLUME")
  ELSE NoExit

\* a call of check_exit_conditions on the open position of strategy 1
CheckExitConditions ==
  \E current_price \in ExitPrices, ind \in ExitSnapshots :
    /\ OpenPositions(strat[1]) # {}
    /\ LET position == strat[1].virtual_positions[1]
       IN returned' =
            <<[ position |-> position, current_price |-> current_price,
                indicators |-> ind,
                exit_conditions |->
                  check_exit_conditions(position, current_price, ind) ]>>
    /\ UNCHANGED <<stratVars, engineVars, websocket, is_connected,
                   subscriptions, listeners, owner, frames, ohlcv_data,
                   tick_log, price_data, pvaVars, frameVars, hubVars, taskVars, joinVars>>

\* strategy 1 holds the position it opened from the signal generated on
\* the entry snapshot
ExitInit ==
  /\ now = ClockStart
  /\ EngineInit
  /\ ClientInit
  /\ price_data = NewPriceData
  /\ generated = << >>
  /\ \E tt \in TradeTypes, entry \in EntrySnapshots :
       /\ indicators = Some(entry)
       /\ strat = [s \in StrategyIds |->
                     IF s = 1
                     THEN execute_virtual_trade(NewStrategy(TRUE, FALSE),
                            [MakeSignal(1, "Nifty50", tt, now) EXCEPT
                               !.price = entry.current_price,
                               !.atr = entry.atr],
                            now)
                     ELSE NewStrategy(FALSE, FALSE)]

ExitNext == CheckExitConditions

ExitSpec == ExitInit /\ [][ExitNext]_vars

(***************************************************************************)
(* Claims about the exit escalation                                        *)
(***************************************************************************)
\* C31: the exit rules are tried in the order volume climax (VROC > 300),
\* price 2 x ATR in the position's favour, low volume, and the first that
\* matches alone gives the exit reason; when none matches no exit is
\* requested.
C31_FirstMatchingRuleWins ==
  returned # << >> =>
    LET call == returned[1]
        climax == call.indicators.vroc > 300
        favour == IF call.position.trade_type = "LONG"
                  THEN call.current_price - call.position.entry_price
                  ELSE call.position.entry_price - call.current_price
        target == favour >= 2 * call.indicators.atr
        low == LowVolumeExit(call.position, call.indicators)
        reason == call.exit_conditions.exit_reason
    IN /\ call.exit_conditions.should_exit = (reason # "None")
       /\ reason = IF climax THEN "VOLUME_CLIMAX"
                   ELSE IF target THEN "TARGET_2ATR"
                   ELSE IF low THEN "LOW_VOLUME"
                   ELSE "None"

\* a call in which the volume climax and the price target both matched
C31_Witness ==
  /\ returned # << >>
  /\ returned[1].indicators.vroc > 300
  /\ returned[1].position.trade_type = "LONG"
  /\ returned[1].current_price = 104
  /\ returned[1].indicators.atr = 2
  /\ returned[1].indicators.current_volume = 79
  /\ returned[1].exit_conditions = Exit("VOLUME_CLIMAX")

\* C32: the low-volume rule fires exactly when the current volume is below
\* 80% of the volume observed when the position was entered, not of a
\* rolling average.
C32_LowVolumeAgainstEntryVolume ==
  (returned # << >> /\ indicators # None) =>
    LET call == returned[1]
        entered_at == indicators[1].current_volume
    IN (/\ ~ VolumeClimax(call.indicators)
        /\ ~ Target2Atr(call.position, call.current_price, call.indicators))
         => (call.exit_conditions.exit_reason = "LOW_VOLUME"
               <=> 5 * call.indicators.current_volume < 4 * entered_at)


(***************************************************************************)
(* BaseStrategy.validate_for_live_mode called on its own                   *)
(***************************************************************************)
\* a call of validate_for_live_mode on a strategy
ValidateForLiveMode ==
  \E s \in StrategyIds :
    /\ returned' = <<[ strategy |-> s,
                       validation_results |-> validate_for_live_mode(strat[s]) ]>>
    /\ UNCHANGED <<stratVars, engineVars, websocket, is_connected,
                   subscriptions, listeners, owner, frames, ohlcv_data,
                   tick_log, price_data, pvaVars, frameVars, hubVars, taskVars, joinVars>>

ValidateNext == ValidateForLiveMode

\* strategy 1 has any track record and any flags; strategy 2 is new
ValidateSpec == LiveInit /\ [][ValidateNext]_vars

(***************************************************************************)
(* Claims about validate_for_live_mode                                     *)
(***************************************************************************)
\* C33: validate_for_live_mode returns passed = true if and only if the
\* cumulative simulated P&L is above 0, the trade count is at least 10 and
\* the win rate is at least 0.5; its result carries the three criterion
\* booleans and the three metrics; the call changes no strategy state.
C33_PassedIffThreeCriteria ==
  /\ [](returned # << >> =>
          LET st == strat[returned[1].strategy]
              result == returned[1].validation_results
              rate == win_rate(st)
          IN /\ result.passed <=> (/\ st.virtual_pnl > 0
                                   /\ st.virtual_trade_count >= 10
                                   /\ 2 * rate[1] >= rate[2])
             /\ DOMAIN result.criteria
                  = {"positive_pnl", "min_trades", "min_win_rate"}
             /\ result.criteria.positive_pnl = (st.virtual_pnl > 0)
             /\ result.criteria.min_trades = (st.virtual_trade_count >= 10)
             /\ result.criteria.min_win_rate = (2 * rate[1] >= rate[2])
             /\ DOMAIN result.metrics = {"virtual_pnl", "trade_count", "win_rate"}
             /\ result.metrics.virtual_pnl = st.virtual_pnl
             /\ result.metrics.trade_count = st.virtual_trade_count
             /\ result.metrics.win_rate = rate)
  /\ [][returned' # returned => strat' = strat]_vars

\* a call that passed, on 5 winning and 5 losing trades
C33_Witness ==
  /\ returned # << >>
  /\ returned[1].validation_results.passed
  /\ returned[1].validation_results.metrics.trade_count = 10
  /\ returned[1].validation_results.metrics.win_rate = <<5, 10>>


(***************************************************************************)
(* BaseStrategy.calculate_position_size called on its own                  *)
(***************************************************************************)
\* signal strengths on both sides of the tier limits 150 and 250
SizeStrengths == {0, 149, 150, 151, 249, 250, 251, 400}

\* prices: small, dividing the position value or not, and above it
SizePrices == {1, 3, 7, 99, 100, 101, 333, 999, 1000, 1001, 1499, 1500,
               1501, 1999, 2000, 2001, 5000}

\* a call of calculate_position_size
CalculatePositionSize ==
  \E signal_strength \in SizeStrengths, price \in SizePrices :
    /\ returned' = <<[ signal_strength |-> signal_strength, price |-> price,
                       quantity |-> calculate_position_size(signal_strength, price) ]>>
    /\ UNCHANGED <<stratVars, engineVars, websocket, is_connected,
                   subscriptions, listeners, owner, frames, ohlcv_data,
                   tick_log, price_data, pvaVars, frameVars, hubVars, taskVars, joinVars>>

SizeNext == CalculatePositionSize

\* a strategy as constructed
SizeSpec == RiskInit /\ [][SizeNext]_vars

(***************************************************************************)
(* Claims about calculate_position_size                                    *)
(***************************************************************************)
\* the multiplier the three tiers give a strength, as <<numerator,
\* denominator>>
TierMultiplier(strength) ==
  IF strength > 250 THEN <<1, 1>>
  ELSE IF strength >= 150 THEN <<3, 4>>
  ELSE <<1, 2>>

\* C34: calculate_position_size(strength, price) returns
\* max(1, floor(capital x fraction x m / price)) with m = 1.0 above 250,
\* 0.75 from 150 to 250 and 0.5 otherwise; for a fixed price the quantity
\* is non-decreasing in strength and never below 1.
C34_SizeByTier ==
  /\ returned # << >> =>
       LET call == returned[1]
           m == TierMultiplier(call.signal_strength)
           floored == (100000 * 2 * m[1]) \div (100 * m[2] * call.price)
       IN /\ call.quantity = IF floored > 1 THEN floored ELSE 1
          /\ call.quantity >= 1
  /\ \A price \in SizePrices, weaker \in SizeStrengths, stronger \in SizeStrengths :
       weaker <= stronger
         => calculate_position_size(weaker, price)
              <= calculate_position_size(stronger, price)

\* calls in the middle tier at its lower limit, and one floored up to 1
C34_Witness ==
  /\ returned # << >>
  /\ returned[1].signal_strength = 150
  /\ returned[1].price = 1001
  /\ returned[1].quantity = 1
  /\ calculate_position_size(149, 100) = 10
  /\ calculate_position_size(150, 100) = 15
  /\ calculate_position_size(251, 100) = 20
  /\ calculate_position_size(0, 5000) = 1


(***************************************************************************)
(* Claims about the symbol of a signal                                     *)
(***************************************************************************)
\* C35: a signal, and the position opened from it, carries the symbol of
\* the market-data tick that produced it, so later ticks for that symbol
\* are the ones that drive the position's exit checks.
C35_SignalCarriesTickSymbol ==
  [][ (/\ tick_log' # tick_log
       /\ generated' # << >>
       /\ generated'[1].signal_type # "None")
        => LET tick == tick_log'[Len(tick_log')]
               opened == strat'[1].virtual_positions
           IN /\ generated'[1].symbol = tick.symbol
              /\ Len(opened) > Len(strat[1].virtual_positions)
                   => opened[Len(opened)].symbol = tick.symbol ]_vars


(***************************************************************************)
(* Claims about the performance counters                                   *)
(***************************************************************************)
\* the closed positions of a strategy
ClosedPositions(st) ==
  { i \in 1..Len(st.virtual_positions) : st.virtual_positions[i].status = "CLOSED" }

\* the sum of the pnl of a set of positions of a strategy
RECURSIVE SumPnl(_, _)
SumPnl(st, closed) ==
  IF closed = {} THEN 0
  ELSE LET i == CHOOSE j \in closed : TRUE
       IN st.virtual_positions[i].pnl[1] + SumPnl(st, closed \ {i})

\* C36: after any sequence of entries and closes, by per-tick exits and by
\* the end-of-day flatten, virtual_trade_count is the number of CLOSED
\* positions, virtual_pnl the sum of their pnl, and win_rate the closed
\* positions with pnl > 0 over virtual_trade_count, within [0, 1].
C36_CountersMatchClosedPositions ==
  \A s \in StrategyIds :
    LET st == strat[s]
        closed == ClosedPositions(st)
        rate == win_rate(st)
    IN /\ st.virtual_trade_count = Cardinality(closed)
       /\ st.virtual_pnl = SumPnl(st, closed)
       /\ closed # {} =>
            /\ rate[1] = Cardinality({ i \in closed : st.virtual_positions[i].pnl[1] > 0 })
            /\ rate[2] = st.virtual_trade_count
       /\ 0 <= rate[1] /\ rate[1] <= rate[2]

\* one strategy closed a position with a profit on a tick, and a position
\* was closed at the end of the day
C36_Witness ==
  \E s, r \in StrategyIds :
    \E i \in ClosedPositions(strat[s]), j \in ClosedPositions(strat[r]) :
      /\ strat[s].virtual_positions[i].exit_reason = "EOD"
      /\ strat[r].virtual_positions[j].exit_reason = "TARGET"
      /\ strat[r].virtual_positions[j].pnl[1] > 0
      /\ strat[r].winning_trades = 1


(***************************************************************************)
(* Claims about the emergency-stop audit record                            *)
(***************************************************************************)
\* C37: for every strategy listed in the emergency-stop audit record, the
\* recorded was_live equals the strategy's live flag immediately before the
\* emergency stop was applied.
C37_WasLiveIsFlagBeforeStop ==
  [][ /\ (estop.pc = "idle" /\ estop'.pc = "log")
          => \A i \in 1..Len(estop'.affected_strategies) :
               LET entry == estop'.affected_strategies[i]
               IN entry.was_live = strat[entry.strategy_id].is_live_mode
      /\ Len(emergency_log') > Len(emergency_log)
          => emergency_log'[Len(emergency_log')].affected_strategies
               = estop.affected_strategies ]_vars


(***************************************************************************)
(* StrategyEngine: starts and stops, with every periodic task kept         *)
(***************************************************************************)
\* the tasks of _periodic_tasks that have not ended
ActiveLoops == { i \in 1..Len(loops) : loops[i] # "ended" }

\* connect() and subscribe_nifty_banknifty_options() returned:
\* asyncio.create_task(self._periodic_tasks()) adds a task
StartDoneTask ==
  /\ starting.pc = "connect"
  /\ starting' = [starting EXCEPT !.pc = "idle"]
  /\ loops' = Append(loops, "created")
  /\ UNCHANGED <<stratVars, emergency_stopped, latest_market_data, dispatch,
                 ticks, estop, periodic, emergency_log, is_running, response,
                 websocket, is_connected, subscriptions, listeners, owner,
                 frames, ohlcv_data, tick_log, price_data, pvaVars, frameVars,
                 hubVars, callVars, joinVars>>

\* a task of _periodic_tasks runs to its next sleep: a new task tests
\* is_running; a sleeping one wakes, runs _check_eod_exit and
\* _update_performance_metrics (no strategy holds a position here) and
\* tests is_running again
LoopStep ==
  \E i \in ActiveLoops :
    /\ loops' = [loops EXCEPT ![i] = IF is_running THEN "sleep" ELSE "ended"]
    /\ UNCHANGED <<stratVars, engineVars, websocket, is_connected,
                   subscriptions, listeners, owner, frames, ohlcv_data,
                   tick_log, price_data, pvaVars, frameVars, hubVars, callVars,
                   joinVars>>

\* a started engine, its periodic task asleep
RestartInit ==
  /\ strat = [s \in StrategyIds |-> NewStrategy(s = 1, s = 1)]
  /\ now = ClockStart
  /\ EngineInit
  /\ FeedInit

RestartNext ==
  \/ Start
  \/ StartDoneTask
  \/ StartFail
  \/ Stop
  \/ LoopStep
  \/ EmergencyStop
  \/ EstopLogOk
  \/ EstopLogFail
  \/ EstopUpdateDone
  \/ Advance

RestartSpec == RestartInit /\ [][RestartNext]_vars

(***************************************************************************)
(* Claims about starts and stops                                           *)
(***************************************************************************)
\* C38: if start() fails because the feed connect or subscribe step raises,
\* the engine is not left marked running: is_running is false afterwards,
\* so a later start() tries again.
C38_FailedStartNotRunning ==
  [][ (starting.pc = "connect" /\ starting'.pc = "idle" /\ loops' = loops)
        => (~ is_running' /\ start_allowed(is_running')) ]_vars

\* C39: after any sequence of start() and stop() calls at most one
\* periodic-maintenance loop is active, also when a start() follows a
\* stop() before the old loop wakes from its sleep.
C39_OnePeriodicLoop == Cardinality(ActiveLoops) <= 1


(***************************************************************************)
(* ConnectionManager: listeners joining the market_data channel            *)
(***************************************************************************)
\* connect(websocket, "market_data") up to the await of websocket.accept()
JoinBegin ==
  \E websocket_ \in Connections :
    /\ joins[websocket_] = "idle"
    /\ joins' = [joins EXCEPT ![websocket_] = "accept"]
    /\ UNCHANGED <<stratVars, engineVars, websocket, is_connected,
                   subscriptions, listeners, owner, frames, ohlcv_data,
                   tick_log, price_data, pvaVars, frameVars, hubVars,
                   callVars, taskVars, is_market_connected>>

\* accept() returned: the websocket joins the channel, and connect calls
\* _start_market_feed, which awaits dhanhq_client.connect(), when the
\* feed is not marked connected
JoinAccepted ==
  \E websocket_ \in Connections :
    /\ joins[websocket_] = "accept"
    /\ active_connections' =
         [active_connections EXCEPT !["market_data"] = @ \cup {websocket_}]
    /\ joins' = [joins EXCEPT ![websocket_] =
                   IF ~ is_market_connected THEN "connect" ELSE "joined"]
    /\ UNCHANGED <<stratVars, engineVars, websocket, is_connected,
                   subscriptions, listeners, owner, frames, ohlcv_data,
                   tick_log, price_data, pvaVars, frameVars, broadcast,
                   callVars, taskVars, is_market_connected>>

\* dhanhq_client.connect() returned: a new upstream socket replaces
\* self.websocket and a task of _listen_messages is created;
\* _start_market_feed awaits subscribe_nifty_banknifty_options()
JoinFeedConnected ==
  \E websocket_ \in Connections :
    /\ joins[websocket_] = "connect"
    /\ websocket' = Len(listeners) + 1
    /\ is_connected' = TRUE
    /\ listeners' = Append(listeners, NewListener(Len(listeners) + 1))
    /\ joins' = [joins EXCEPT ![websocket_] = "subscribe"]
    /\ UNCHANGED <<stratVars, engineVars, subscriptions, owner, frames,
                   ohlcv_data, tick_log, price_data, pvaVars, frameVars,
                   hubVars, callVars, taskVars, is_market_connected>>

\* dhanhq_client.connect() raised: _start_market_feed logs it and clears
\* the flag
JoinFeedConnectFail ==
  \E websocket_ \in Connections :
    /\ joins[websocket_] = "connect"
    /\ is_market_connected' = FALSE
    /\ joins' = [joins EXCEPT ![websocket_] = "joined"]
    /\ UNCHANGED <<stratVars, engineVars, websocket, is_connected,
                   subscriptions, listeners, owner, frames, ohlcv_data,
                   tick_log, price_data, pvaVars, frameVars, hubVars,
                   callVars, taskVars>>

\* subscribe_nifty_banknifty_options() returned, and the flag is set, or
\* raised, and the flag is cleared
JoinSubscribed ==
  \E websocket_ \in Connections, ok \in BOOLEAN :
    /\ joins[websocket_] = "subscribe"
    /\ is_market_connected' = ok
    /\ joins' = [joins EXCEPT ![websocket_] = "joined"]
    /\ UNCHANGED <<stratVars, engineVars, websocket, is_connected,
                   subscriptions, listeners, owner, frames, ohlcv_data,
                   tick_log, price_data, pvaVars, frameVars, hubVars,
                   callVars, taskVars>>

JoinNext ==
  \/ JoinBegin
  \/ JoinAccepted
  \/ JoinFeedConnected
  \/ JoinFeedConnectFail
  \/ JoinSubscribed

\* a manager, as constructed, with its client
JoinSpec == HubInit /\ [][JoinNext]_vars

(***************************************************************************)
(* Claims about the upstream feed connection                               *)
(***************************************************************************)
\* C40: when several listeners join the market_data channel concurrently
\* while the upstream feed is not yet marked connected, the upstream
\* connection is opened at most once: at most one upstream socket and one
\* feed listener task exist at any time.
C40_OneUpstreamConnection ==
  /\ Cardinality({ listeners[i].websocket : i \in 1..Len(listeners) }) <= 1
  /\ Cardinality({ i \in 1..Len(listeners) : listeners[i].pc # "ended" }) <= 1

====
